---- MODULE Spec2Model ----
(***************************************************************************)
(* Absence / slot / credit reconciliation of the WhatsApp booking webhook. *)
(*                                                                         *)
(* Every webhook delivery takes its own connection from the pool           *)
(* (pool.connect) and runs its transaction on it, so the transactions of   *)
(* concurrent deliveries interleave statement by statement under           *)
(* PostgreSQL's default READ COMMITTED isolation: a statement sees the     *)
(* committed rows plus the writes of its own transaction, row locks are    *)
(* held until COMMIT/ROLLBACK, and a statement that needs a row lock held  *)
(* by another transaction waits (its action is disabled) unless it says    *)
(* SKIP LOCKED.                                                            *)
(***************************************************************************)
EXTENDS Integers, FiniteSets, Sequences, TLC

\* ------------------------------------------------------------------ bounds
MaxOps == 2          \* operations started in one behaviour
MaxConcurrent == 2   \* transactions open at the same time
MaxFocusOps == 3     \* operations of one behaviour of the single-occurrence workload
MaxDeliveries == 2   \* webhook deliveries of one behaviour of the delivery workload
MaxMessages == 2     \* messages of one behaviour of the dispatch workload
MaxBatch == 2        \* messages of one POST with several messages
MaxLookups == 2      \* sender lookups of one behaviour of the lookup workload
OUTBOUND_MAX_RETRIES == 2  \* retries of one outbound send (environment setting, >= 0)

\* ------------------------------------------------------- read-only tables
Members == {"m1", "m2", "m3"}
Instructors == {"i1"}
ClassIds == {"c1", "c2"}         \* the classes of tomorrow's weekday
OtherDayClass == "c3"            \* a class of another weekday
TemplateIds == ClassIds \cup {OtherDayClass}
NoClass == "none"    \* classTemplateIdHint = null
NoUser == "none"     \* taken_by_user_id IS NULL
NoId == 0            \* an id that is NULL / not yet assigned
Today == 2           \* CURRENT_DATE
Tomorrow == Today + 1
\* the same weekday as tomorrow one week earlier, today, tomorrow
Dates == {Tomorrow - 7, Today, Tomorrow}

\* EXTRACT(ISODOW FROM d): date 1 is a Monday (x % 7 is never negative)
ISODOW(d) == ((d - 1) % 7) + 1

\* public.class_templates with the columns of public.groups and of
\* v_open_slots_desc the queries read (owner, level, price, free capacity):
\* c1 and c2 both run on tomorrow's weekday, c3 on the day after, nothing
\* runs on today's
class_templates ==
  [c \in TemplateIds |->
     CASE c = "c1" -> [weekday_iso |-> 3, start_time |-> 18, is_active |-> TRUE,
                       instructor_id |-> "i1", required_level |-> 1,
                       price_per_session |-> 10, free_capacity_remaining |-> 1]
       [] c = "c2" -> [weekday_iso |-> 3, start_time |-> 10, is_active |-> TRUE,
                       instructor_id |-> "i2", required_level |-> 2,
                       price_per_session |-> 20, free_capacity_remaining |-> 1]
       [] c = "c3" -> [weekday_iso |-> 4, start_time |-> 18, is_active |-> TRUE,
                       instructor_id |-> "i1", required_level |-> 1,
                       price_per_session |-> 10, free_capacity_remaining |-> 1]]

\* public.enrollments: m2 attends c1 and c2 (two classes on the same weekday)
\* and c3, m1 and m3 attend none
enrollments == {<<"m2", "c1">>, <<"m2", "c2">>, <<"m2", "c3">>}

\* public.users with v_user_home_price
users ==
  [u \in Members |->
     CASE u = "m1" -> [level_id |-> 1, max_home_price |-> 20]
       [] u = "m2" -> [level_id |-> 2, max_home_price |-> 20]
       [] u = "m3" -> [level_id |-> 2, max_home_price |-> 20]]

VARIABLES
  absences,    \* committed rows of public.absences
  slots,       \* committed rows of public.slots
  credits,     \* committed rows of public.user_absence_credits: user -> balance
  absSeq,      \* last value of the absences id sequence
  slotSeq,     \* last value of the slots id sequence
  creditLock,  \* user -> the operation holding that credit row's lock (0: none)
  slotLock,    \* row locks on slots: {[slot, op]}
  inbox,       \* provider ids of the rows of inbox_messages
  ops          \* the operations started so far, in start order

vars == <<absences, slots, credits, absSeq, slotSeq, creditLock, slotLock, inbox, ops>>

\* ----------------------------------------------------------------- helpers
OpIds == 1..Len(ops)
Finished == {i \in OpIds : ops[i].pc = "done"}
Running == OpIds \ Finished

AbsenceKey(a) == <<a.user_id, a.class_template_id, a.session_date>>

OpenSlotIds(ct, ymd) ==
  {s.id : s \in {t \in slots : t.class_template_id = ct /\ t.session_date = ymd
                               /\ t.status = "open"}}

\* creditRes.rows[0]?.balance || 0: the committed balance, 0 without a row
ReadBalance(u) == IF u \in DOMAIN credits THEN credits[u] ELSE 0

\* ---------------------------------------------------------------- messages
\* One element m of value.messages as far as the webhook reads it: m.id, m.from,
\* the shape (m.type 'text', or 'interactive' with interactive.type list_reply
\* or button_reply) and the content. The content of a text is its first word
\* (tag), the date and the time of a "zwalniam dd/mm o hh:mm" command; the
\* content of an interactive reply is its id: the leading word(s) (tag), the
\* number n of fields that splitting the id on '_' yields, and the date and
\* class fields. A class field is a class template id, NotANumber, or NoClass
\* when the id has no such field.
NoTime == 0
NotANumber == "abc"
Msg(uid, from, shape, tag, n, d, c, time) ==
  [id |-> uid, from |-> from, shape |-> shape, tag |-> tag,
   n |-> n, d |-> d, c |-> c, time |-> time]

\* the messages the menus of the service make a sender produce:
\* a row absence_<date>_<class> of the upcoming-classes list, or the typed
\* command "zwalniam dd/mm" when the class is not named
AbsenceMsg(uid, u, d, hint) ==
  IF hint = NoClass THEN Msg(uid, u, "text", "zwalniam", 0, d, NoClass, NoTime)
  ELSE Msg(uid, u, "list_reply", "absence", 3, d, hint, NoTime)

\* a row makeup_<date>_<class> of the makeup list
MakeupMsg(uid, u, d, c) == Msg(uid, u, "list_reply", "makeup", 3, d, c, NoTime)

\* a row instr_addslot_<date>_<class> of the instructor's add-slot list
AddSlotMsg(uid, instr, d, c) ==
  Msg(uid, instr, "list_reply", "instr_addslot", 4, d, c, NoTime)

\* The replies the caller of an operation sends for its outcome, in order.
\* the replies of handleAbsenceInteractive with the confirmation as the last
\* message of a success
AbsenceMenuReplies_NoQuestion(result) ==
  CASE result = "ok" -> <<"absence_confirmed">>
    [] result = "already_absent" -> <<"already_absent", "absence_more_question">>
    [] result = "past_date" -> <<"past_date", "absence_more_question">>
    [] result = "no_enrollment_for_weekday" ->
         <<"no_enrollment", "absence_more_question">>
    [] OTHER -> <<"absence_failed">>

\* reportAbsence from a list reply (handleAbsenceInteractive):
AbsenceMenuReplies(result) ==
  CASE result = "ok" -> <<"absence_confirmed", "absence_more_question">>
    [] result = "already_absent" -> <<"already_absent", "absence_more_question">>
    [] result = "past_date" -> <<"past_date", "absence_more_question">>
    [] result = "no_enrollment_for_weekday" ->
         <<"no_enrollment", "absence_more_question">>
    [] OTHER -> <<"absence_failed">>

\* reportAbsence from the typed command (the webhook's text branch):
AbsenceTextReplies(result) ==
  CASE result = "ok" -> <<"absence_confirmed", "absence_more_question">>
    [] result = "past_date" -> <<"past_date">>
    [] result = "already_absent" -> <<"already_absent", "absence_more_question">>
    [] result = "no_enrollment_for_weekday" ->
         <<"no_enrollment", "upcoming_classes_menu">>
    [] OTHER -> <<"absence_failed">>

\* reserveMakeupSlot (handleMakeupInteractive):
MakeupReplies(result) ==
  CASE result = "ok" -> <<"makeup_confirmed">>
    [] result = "no_credit" -> <<"no_credit">>
    [] result = "slot_unavailable" -> <<"slot_unavailable", "makeup_menu">>
    [] OTHER -> <<"makeup_failed">>

\* addManualSlot (handleInstructorAddSlotSelection):
AddSlotReplies(result) ==
  CASE result = "ok" -> <<"addslot_confirmed">>
    [] result = "past_date" -> <<"addslot_past_date">>
    [] OTHER -> <<"addslot_not_owner">>

OutcomeReplies(o, result) ==
  CASE o.kind = "absence" /\ o.msg.shape = "text" -> AbsenceTextReplies(result)
    [] o.kind = "absence" -> AbsenceMenuReplies(result)
    [] o.kind = "makeup" -> MakeupReplies(result)
    [] OTHER -> AddSlotReplies(result)

\* A request as the handler receives it. Besides the handler's locals
\* (classTemplateId, absenceId, slot_id, balance) and the transaction's
\* uncommitted writes (wAbs, wSlots, wTaken, wCredit) the record keeps what the
\* request found when it arrived: whether its provider id was in the inbox
\* already (redelivered), the operations that had ended (after), the caller's
\* balance (creditAtStart) and the open slots of its occurrence (openAtStart).
\* notify is the outcome of the instructor notification, http the status the
\* webhook has answered the provider with (0: no response), msg the message
\* that carried the request and replies what has been sent back for it.
NewOp(m, kind, u, d, c, pc0) ==
  [provider_uid |-> m.id, redelivered |-> m.id \in inbox, msg |-> m,
   replies |-> <<>>, raised |-> FALSE,
   kind |-> kind, user |-> u, ymd |-> d, ct |-> c, pc |-> pc0,
   classTemplateId |-> NoClass, absenceId |-> NoId, slot_id |-> NoId,
   balance |-> 0, result |-> "", notify |-> "", http |-> 0,
   after |-> Finished,
   creditAtStart |-> ReadBalance(u),
   openAtStart |-> IF c = NoClass THEN {} ELSE OpenSlotIds(c, d),
   wAbs |-> {}, wSlots |-> {}, wTaken |-> {}, wCredit |-> {}]

\* INSERT INTO inbox_messages (source, provider_uid, ...) ON CONFLICT DO
\* NOTHING, run on the webhook's connection outside any transaction: the
\* provider id is in the inbox afterwards, and the statement returns normally
\* whether or not it was there before
InsertInboxRecord(m) == inbox' = inbox \cup {m.id}

\* the provider id of a message delivered for the first time
FreshUid == Cardinality(inbox) + 1

\* a further delivery can be accepted: `budget` bounds the operations of a
\* behaviour, MaxConcurrent the connections in use
CanStart(budget) == Len(ops) < budget /\ Cardinality(Running) < MaxConcurrent

\* ROLLBACK (and the return that follows it): the transaction's writes are
\* discarded and its row locks released; the webhook leaves its try block and
\* answers 200
RolledBack(o, reason) ==
  [o EXCEPT !.pc = "done", !.result = reason, !.http = 200,
            !.replies = OutcomeReplies(o, reason),
            !.wAbs = {}, !.wSlots = {}, !.wTaken = {}, !.wCredit = {}]

\* the connection goes back to the pool with its transaction still open: the
\* credit row stays locked
ReleaseLocks_CreditRowKept(i) ==
  /\ creditLock' = creditLock
  /\ slotLock' = {l \in slotLock : l.op # i}

\* COMMIT or ROLLBACK ends the transaction: every row lock it holds is released
ReleaseLocks(i) ==
  /\ creditLock' = [u \in Members |-> IF creditLock[u] = i THEN 0 ELSE creditLock[u]]
  /\ slotLock' = {l \in slotLock : l.op # i}

\* ------------------------------------------------------------ initial state
ManualSlot(id, c, d) ==
  [id |-> id, class_template_id |-> c, session_date |-> d,
   source_absence_id |-> NoId, status |-> "open", taken_by_user_id |-> NoUser]

InitWith(slots0, credits0) ==
  /\ absences = {}
  /\ slots = slots0
  /\ credits = credits0
  /\ absSeq = 0
  /\ slotSeq = Cardinality(slots0)
  /\ creditLock = [u \in Members |-> 0]
  /\ slotLock = {}
  /\ inbox = {}
  /\ ops = <<>>

\* No absence reported yet; an instructor has opened one slot in c1 and one in
\* c2 for tomorrow; m1 and m3 hold one credit each, m2 has no credit row.
InitSlots == {ManualSlot(1, "c1", Tomorrow), ManualSlot(2, "c2", Tomorrow)}
InitCredits == [u \in {"m1", "m3"} |-> 1]

Init == InitWith(InitSlots, InitCredits)

\* ------------------------------------------- reportAbsence = processAbsence
\* SELECT $1::date < CURRENT_DATE AS is_past
IsPast(d) == d < Today

\* the hint check: the user is enrolled in the hinted class, the class is
\* active and runs on the date's weekday
HintMatches(u, d, hint) ==
  /\ <<u, hint>> \in enrollments
  /\ class_templates[hint].is_active
  /\ class_templates[hint].weekday_iso = ISODOW(d)

\* the free-text query without the join on enrollments: every active class
\* of the date's weekday
ClassesOnDay_AnyClass(u, d) ==
  {c \in TemplateIds : /\ class_templates[c].is_active
                       /\ class_templates[c].weekday_iso = ISODOW(d)}

\* the free-text query: the user's active classes on the date's weekday
ClassesOnDay(u, d) ==
  {c \in TemplateIds : /\ <<u, c>> \in enrollments
                       /\ class_templates[c].is_active
                       /\ class_templates[c].weekday_iso = ISODOW(d)}

\* ORDER BY ct.start_time LIMIT 1: a row with the least start_time
FirstByStartTime(S) ==
  {c \in S : \A e \in S : class_templates[c].start_time <= class_templates[e].start_time}

\* Step 1 of processAbsence. The outcomes the code can produce: a class id, or
\* a failure reason.
ResolveClassTemplateId(u, d, hint) ==
  IF hint # NoClass
    THEN IF HintMatches(u, d, hint) THEN {hint} ELSE {"no_enrollment_for_weekday"}
    ELSE IF ClassesOnDay(u, d) = {} THEN {"no_enrollment_for_weekday"}
         ELSE FirstByStartTime(ClassesOnDay(u, d))

\* the class is resolved first and the date checked afterwards
ProcessAbsenceOutcome_ResolveFirst(u, d, hint) ==
  IF ResolveClassTemplateId(u, d, hint) \cap TemplateIds = {}
    THEN ResolveClassTemplateId(u, d, hint)
    ELSE IF IsPast(d) THEN {"past_date"} ELSE ResolveClassTemplateId(u, d, hint)

\* BEGIN, the past-date check and the class resolution: the statements of
\* processAbsence that read only CURRENT_DATE and the read-only tables
ProcessAbsenceOutcome(u, d, hint) ==
  IF IsPast(d) THEN {"past_date"} ELSE ResolveClassTemplateId(u, d, hint)

ProcessAbsenceBegin(m, u, d, hint, budget) ==
  /\ CanStart(budget)
  /\ InsertInboxRecord(m)
  /\ \E r \in ProcessAbsenceOutcome(u, d, hint) :
       LET o == NewOp(m, "absence", u, d, hint, "pa_existing")
       IN ops' = Append(ops, IF r \in TemplateIds
                               THEN [o EXCEPT !.classTemplateId = r]
                               ELSE RolledBack(o, r))
  /\ UNCHANGED <<absences, slots, credits, absSeq, slotSeq, creditLock, slotLock>>

\* 2) left out: the lookup finds nothing
ExistingAbsences_NoLookup(u, c, d) == {}

\* 2) SELECT id FROM absences WHERE user_id, class_template_id, session_date
ExistingAbsences(u, c, d) ==
  {a \in absences : AbsenceKey(a) = <<u, c, d>>}

PA_Existing(i) ==
  /\ i \in OpIds /\ ops[i].pc = "pa_existing"
  /\ LET o == ops[i]
         ex == ExistingAbsences(o.user, o.classTemplateId, o.ymd)
     IN IF ex # {}
          THEN \E a \in ex :
                 ops' = [ops EXCEPT ![i] =
                           RolledBack([o EXCEPT !.absenceId = a.id], "already_absent")]
          ELSE ops' = [ops EXCEPT ![i].pc = "pa_insert"]
  /\ UNCHANGED <<absences, slots, credits, absSeq, slotSeq, creditLock, slotLock, inbox>>

\* the unique index on absences (user_id, class_template_id, session_date):
\* the keys an INSERT of operation i conflicts with. A committed row raises a
\* unique violation; a row another open transaction has inserted makes the
\* INSERT wait for that transaction to end.
CommittedAbsenceKeys == {AbsenceKey(a) : a \in absences}
PendingAbsenceKeys(i) ==
  UNION {{AbsenceKey(a) : a \in ops[j].wAbs} : j \in Running \ {i}}

\* the unique index on slots (source_absence_id): the slots an
\* INSERT ... ON CONFLICT DO NOTHING for this absence conflicts with
SlotsOfAbsence(S, absenceId) == {s \in S : s.source_absence_id = absenceId}

\* 4) left out: no slot row is inserted
InsertSlotForAbsence_Skipped(c, d, absenceId) == {}

\* 4) INSERT INTO slots (..., source_absence_id, 'open', NULL, ...) ON CONFLICT
\*    DO NOTHING: the rows the transaction has inserted into slots afterwards
InsertSlotForAbsence(c, d, absenceId) ==
  IF SlotsOfAbsence(slots, absenceId) # {} THEN {}
  ELSE {[id |-> slotSeq + 1, class_template_id |-> c, session_date |-> d,
         source_absence_id |-> absenceId, status |-> "open",
         taken_by_user_id |-> NoUser]}

\* the INSERT written as an upsert (ON CONFLICT ... DO UPDATE ... RETURNING id):
\* the transaction goes on with the existing row's id
UniqueViolation_Upsert(o) ==
  [o EXCEPT !.pc = "pa_credit",
            !.absenceId = CHOOSE id \in {a.id : a \in ExistingAbsences(
                                           o.user, o.classTemplateId, o.ymd)} : TRUE]

\* the INSERT raises unique_violation: the catch block rolls back and returns
\* reason 'exception'
UniqueViolation(o) == RolledBack(o, "exception")

\* 3) INSERT INTO absences ... RETURNING id, then 4): the slot row is private
\*    to the transaction until COMMIT, so the two statements are one step
PA_Insert(i) ==
  /\ i \in OpIds /\ ops[i].pc = "pa_insert"
  /\ LET o == ops[i]
         key == <<o.user, o.classTemplateId, o.ymd>>
         row == [id |-> absSeq + 1, user_id |-> o.user,
                 class_template_id |-> o.classTemplateId, session_date |-> o.ymd]
     IN /\ key \notin PendingAbsenceKeys(i)
        /\ absSeq' = absSeq + 1
        /\ IF key \in CommittedAbsenceKeys
             THEN /\ ops' = [ops EXCEPT ![i] = UniqueViolation(o)]
                  /\ UNCHANGED slotSeq
             ELSE /\ ops' = [ops EXCEPT ![i] =
                               [o EXCEPT !.pc = "pa_credit",
                                         !.absenceId = row.id,
                                         !.wAbs = {row},
                                         !.wSlots = InsertSlotForAbsence(
                                                      o.classTemplateId, o.ymd, row.id)]]
                  /\ slotSeq' = slotSeq + 1
  /\ UNCHANGED <<absences, slots, credits, creditLock, slotLock, inbox>>

\* 5) written with ON CONFLICT (user_id) DO NOTHING: an existing balance stays
CreditAfterAbsence_DoNothing(u) == IF u \in DOMAIN credits THEN credits[u] ELSE 1

\* 5) INSERT INTO user_absence_credits (user_id, 1) ON CONFLICT (user_id)
\*    DO UPDATE SET balance = balance + 1: the new balance
CreditAfterAbsence(u) == IF u \in DOMAIN credits THEN credits[u] + 1 ELSE 1

\* COMMIT: the transaction's writes become the committed rows
CommittedSlots(o) ==
  {IF s.id \in o.wTaken
     THEN [s EXCEPT !.status = "taken", !.taken_by_user_id = o.user]
     ELSE s : s \in slots} \cup o.wSlots

CommittedCredits(o) ==
  IF o.wCredit = {} THEN credits
  ELSE [u \in DOMAIN credits \cup {o.user} |->
          IF u = o.user THEN CHOOSE b \in o.wCredit : TRUE ELSE credits[u]]

\* the operation once COMMIT has returned and the handler has gone on to its
\* end; the webhook answers 200
Committed(o) ==
  [o EXCEPT !.pc = "done", !.result = "ok", !.http = 200,
            !.replies = OutcomeReplies(o, "ok"),
            !.wAbs = {}, !.wSlots = {}, !.wTaken = {}, !.wCredit = {}]

\* COMMIT of transaction o; `returned` is the operation's record when the
\* handler returns
Commit(i, o, returned) ==
  /\ absences' = absences \cup o.wAbs
  /\ slots' = CommittedSlots(o)
  /\ credits' = CommittedCredits(o)
  /\ ReleaseLocks(i)
  /\ ops' = [ops EXCEPT ![i] = returned]
  /\ UNCHANGED <<absSeq, slotSeq, inbox>>

\* 6) without the inner try/catch: a failed notification reaches the outer
\*    catch, whose ROLLBACK finds no transaction and which returns 'exception'
NotifyInstructor_Rethrow(o, delivered) ==
  IF delivered THEN [o EXCEPT !.notify = "sent"]
  ELSE [o EXCEPT !.notify = "failed", !.result = "exception"]

\* 6) the instructor notification after COMMIT, in its own try/catch: the
\*    lookup and the send succeed, or one of them throws and the error is
\*    logged; return { ok: true, ... } follows either way
NotifyInstructor(o, delivered) ==
  [o EXCEPT !.notify = IF delivered THEN "sent" ELSE "failed"]

PA_CommitNotify(i, delivered) ==
  /\ i \in OpIds /\ ops[i].pc = "pa_credit"
  /\ creditLock[ops[i].user] \in {0, i}
  /\ LET o == [ops[i] EXCEPT !.wCredit = {CreditAfterAbsence(ops[i].user)}]
     IN Commit(i, o, NotifyInstructor(Committed(o), delivered))

\* 5) the credit upsert, which waits for the row's lock, then COMMIT: the
\*    transaction does nothing between the two, so they are one step
PA_CreditCommit(i) == PA_CommitNotify(i, TRUE)

\* ------------------------------- reserveMakeupSlot = handleMakeupInteractive
\* The list reply makeup_<date>_<class> of an active member: the id is parsed
\* and the transaction is about to begin.
MakeupBegin(m, u, d, c, budget) ==
  /\ CanStart(budget)
  /\ InsertInboxRecord(m)
  /\ ops' = Append(ops, NewOp(m, "makeup", u, d, c, "mk_credit"))
  /\ UNCHANGED <<absences, slots, credits, absSeq, slotSeq, creditLock, slotLock>>

\* 1) read without FOR UPDATE: the read never waits for another transaction
CreditRowFree_NoRowLock(i, u) == TRUE

\* 1) SELECT COALESCE(balance, 0) ... WHERE user_id = $1 FOR UPDATE:
\*    the row can be locked when no other transaction holds its lock
CreditRowFree(i, u) == creditLock[u] \in {0, i}

\*    the check written as balance < 0: a balance of 0 passes
NoCredit_OnlyNegative(balance) == balance < 0

\*    if (balance <= 0) -> ROLLBACK, 'no credit' reply
NoCredit(balance) == balance <= 0

MK_LockCredit(i) ==
  /\ i \in OpIds /\ ops[i].pc = "mk_credit"
  /\ LET o == ops[i]
         b == ReadBalance(o.user)
     IN /\ o.user \in DOMAIN credits => CreditRowFree(i, o.user)
        /\ IF NoCredit(b)
             THEN /\ ops' = [ops EXCEPT ![i] = RolledBack([o EXCEPT !.balance = b], "no_credit")]
                  /\ UNCHANGED creditLock
             ELSE /\ ops' = [ops EXCEPT ![i] = [o EXCEPT !.pc = "mk_select", !.balance = b]]
                  /\ creditLock' = [creditLock EXCEPT ![o.user] = i]
  /\ UNCHANGED <<absences, slots, credits, absSeq, slotSeq, slotLock, inbox>>

\* the eligibility filters without NOT EXISTS (... enrollments ...)
Eligible_OwnClassToo(u, c) ==
  /\ class_templates[c].free_capacity_remaining > 0
  /\ class_templates[c].required_level <= users[u].level_id
  /\ class_templates[c].price_per_session <= users[u].max_home_price

\* the eligibility filters of the slot query: free capacity, level, price,
\* and the member is not enrolled in that class
Eligible(u, c) ==
  /\ class_templates[c].free_capacity_remaining > 0
  /\ class_templates[c].required_level <= users[u].level_id
  /\ class_templates[c].price_per_session <= users[u].max_home_price
  /\ <<u, c>> \notin enrollments

\* the slot query without FOR UPDATE OF s SKIP LOCKED: no row is ever skipped
LockedByOther_NoRowLock(i, slotId) == FALSE

\* FOR UPDATE OF s SKIP LOCKED: rows locked by another transaction are skipped
LockedByOther(i, slotId) == \E l \in slotLock : l.slot = slotId /\ l.op # i

\* 2) the slot query without s.status = 'open': any slot of (class, date)
CandidateSlots_AnyStatus(i, u, d, c) ==
  {s \in slots : /\ s.session_date = d
                 /\ s.class_template_id = c
                 /\ Eligible(u, c)
                 /\ ~LockedByOther(i, s.id)}

\* 2) the slot query with FOR UPDATE OF s alone: locked rows are not skipped
CandidateSlots_LockedRowsToo(i, u, d, c) ==
  {s \in slots : /\ s.status = "open"
                 /\ s.session_date = d
                 /\ s.class_template_id = c
                 /\ Eligible(u, c)}

\* 2) the slot query: open slots of (class, date) the member is eligible for
CandidateSlots(i, u, d, c) ==
  {s \in slots : /\ s.status = "open"
                 /\ s.session_date = d
                 /\ s.class_template_id = c
                 /\ Eligible(u, c)
                 /\ ~LockedByOther(i, s.id)}

\*    ORDER BY s.id LIMIT 1
FirstById(S) == {s \in S : \A t \in S : s.id <= t.id}

MK_SelectSlot(i) ==
  /\ i \in OpIds /\ ops[i].pc = "mk_select"
  /\ LET o == ops[i]
         cand == CandidateSlots(i, o.user, o.ymd, o.ct)
     IN IF cand = {}
          THEN /\ ops' = [ops EXCEPT ![i] = RolledBack(o, "slot_unavailable")]
               /\ ReleaseLocks(i)
          ELSE \E s \in FirstById(cand) :
                 /\ ops' = [ops EXCEPT ![i] = [o EXCEPT !.pc = "mk_take", !.slot_id = s.id]]
                 /\ slotLock' = slotLock \cup {[slot |-> s.id, op |-> i]}
                 /\ UNCHANGED creditLock
  /\ UNCHANGED <<absences, slots, credits, absSeq, slotSeq, inbox>>

\* 3) UPDATE slots SET status = 'taken', taken_by_user_id = $1 WHERE id = $2:
\*    the rows the update writes
SlotsToTake(slotId) == {s.id : s \in {t \in slots : t.id = slotId}}

MK_TakeSlot(i) ==
  /\ i \in OpIds /\ ops[i].pc = "mk_take"
  /\ ~LockedByOther(i, ops[i].slot_id)
  /\ ops' = [ops EXCEPT ![i] = [ops[i] EXCEPT !.pc = "mk_debit",
                                              !.wTaken = SlotsToTake(ops[i].slot_id)]]
  /\ UNCHANGED <<absences, slots, credits, absSeq, slotSeq, creditLock, slotLock, inbox>>

\* 4) left out: the balance stays as it is
CreditAfterClaim_NoDebit(u) == credits[u]

\* 4) UPDATE user_absence_credits SET balance = balance - 1 WHERE user_id = $1
CreditAfterClaim(u) == credits[u] - 1

\* 4) and COMMIT: the transaction holds the credit row's lock since 1), so the
\*    update never waits and the two are one step
\*    After COMMIT, still inside the try block, the confirmation is sent:
\*    sendText posts it and then inserts its audit row on a connection of its
\*    own. When that INSERT is refused the error reaches the catch block, whose
\*    ROLLBACK finds no transaction, and the generic failure text follows the
\*    confirmation already delivered.
ConfirmReservation(o, audited) ==
  IF audited THEN Committed(o)
  ELSE [Committed(o) EXCEPT !.replies = <<"makeup_confirmed", "makeup_failed">>,
                            !.raised = TRUE]

MK_CommitConfirm(i, audited) ==
  /\ i \in OpIds /\ ops[i].pc = "mk_debit"
  /\ CreditRowFree(i, ops[i].user)
  /\ LET o == [ops[i] EXCEPT !.wCredit = IF ops[i].user \in DOMAIN credits
                                            THEN {CreditAfterClaim(ops[i].user)}
                                            ELSE {}]
     IN Commit(i, o, ConfirmReservation(o, audited))

MK_DebitCommit(i) == MK_CommitConfirm(i, TRUE)

\* --------------------------- addManualSlot = handleInstructorAddSlotSelection
\* the class template belongs to a group of this instructor
OwnsClass(instr, c) == class_templates[c].instructor_id = instr

\* without the owner check: any instructor may open a place in any class
AddSlotOutcome_NoOwnerCheck(instr, d, c) ==
  IF IsPast(d) THEN "past_date" ELSE "ok"

AddSlotOutcome(instr, d, c) ==
  IF IsPast(d) THEN "past_date"
  ELSE IF ~OwnsClass(instr, c) THEN "not_owner"
  ELSE "ok"

\* the INSERT written with the status of a place already given away
InsertedManualSlots_Taken(instr, d, c) ==
  {[ManualSlot(slotSeq + 1, c, d) EXCEPT !.status = "taken",
                                         !.taken_by_user_id = instr]}

\* INSERT INTO slots (class_template_id, session_date, NULL, 'open', NULL, ...):
\* the rows the statement adds
InsertedManualSlots(instr, d, c) == {ManualSlot(slotSeq + 1, c, d)}

\* No transaction: the single INSERT commits on its own.
HandleInstructorAddSlotSelection(m, instr, d, c, budget) ==
  /\ Len(ops) < budget
  /\ InsertInboxRecord(m)
  /\ LET r == AddSlotOutcome(instr, d, c)
     IN /\ ops' = Append(ops, LET o == NewOp(m, "addslot", instr, d, c, "done")
                              IN [o EXCEPT !.result = r, !.http = 200,
                                           !.replies = OutcomeReplies(o, r)])
        /\ IF r = "ok"
             THEN /\ slots' = slots \cup InsertedManualSlots(instr, d, c)
                  /\ slotSeq' = slotSeq + 1
             ELSE UNCHANGED <<slots, slotSeq>>
  /\ UNCHANGED <<absences, credits, absSeq, creditLock, slotLock>>

\* ------------------------------------------------------------ specification
Step(i) ==
  \/ PA_Existing(i)
  \/ PA_Insert(i)
  \/ PA_CreditCommit(i)
  \/ MK_LockCredit(i)
  \/ MK_SelectSlot(i)
  \/ MK_TakeSlot(i)
  \/ MK_DebitCommit(i)

\* Any request on any date and class, MaxOps operations.
Next ==
  \/ \E u \in Members, d \in Dates, hint \in ClassIds \cup {NoClass} :
       ProcessAbsenceBegin(AbsenceMsg(FreshUid, u, d, hint), u, d, hint, MaxOps)
  \/ \E u \in Members, d \in Dates, c \in ClassIds :
       MakeupBegin(MakeupMsg(FreshUid, u, d, c), u, d, c, MaxOps)
  \/ \E instr \in Instructors, d \in Dates, c \in ClassIds :
       HandleInstructorAddSlotSelection(AddSlotMsg(FreshUid, instr, d, c), instr, d, c, MaxOps)
  \/ \E i \in 1..MaxOps : Step(i)

Spec == Init /\ [][Next]_vars

\* ------------------------------------------- the single-occurrence workload
\* Every request is about one occurrence, class c1 tomorrow: m2 attends it, m1
\* and m3 are eligible to make up in it, i1 teaches it.
FocusClass == "c1"
FocusDate == Tomorrow

\* Nothing recorded yet; m1 holds one credit, m3 a credit row with one or none,
\* m2 has no credit row.
InitFocus ==
  \E b \in {0, 1} :
    InitWith({}, [u \in {"m1", "m3"} |-> IF u = "m3" THEN b ELSE 1])

NextFocus ==
  \/ \E u \in Members, hint \in {FocusClass, NoClass} :
       ProcessAbsenceBegin(AbsenceMsg(FreshUid, u, FocusDate, hint),
                           u, FocusDate, hint, MaxFocusOps)
  \/ \E u \in Members :
       MakeupBegin(MakeupMsg(FreshUid, u, FocusDate, FocusClass),
                   u, FocusDate, FocusClass, MaxFocusOps)
  \/ \E instr \in Instructors :
       HandleInstructorAddSlotSelection(AddSlotMsg(FreshUid, instr, FocusDate, FocusClass),
                                        instr, FocusDate, FocusClass, MaxFocusOps)
  \/ \E i \in 1..MaxFocusOps : Step(i)

SpecFocus == InitFocus /\ [][NextFocus]_vars

\* ------------------------------------------------------- storage failures
\* what the caller gets from the catch block: reason 'exception' from
\* processAbsence, the generic failure reply from handleMakeupInteractive
FailureResult(kind) == IF kind = "absence" THEN "exception" ELSE "failure"

\* a catch block without ROLLBACK, on a connection whose next COMMIT makes the
\* transaction's writes durable
CaughtError_NoRollback(i, o) ==
  /\ absences' = absences \cup o.wAbs
  /\ slots' = CommittedSlots(o)
  /\ credits' = CommittedCredits(o)
  /\ ops' = [ops EXCEPT ![i] = RolledBack(o, FailureResult(o.kind))]
  /\ ReleaseLocks(i)
  /\ UNCHANGED <<absSeq, slotSeq, inbox>>

\* catch (err) { ROLLBACK; ... }: the transaction's writes are discarded, its
\* locks released, the failure reported
CaughtError(i, o) ==
  /\ ops' = [ops EXCEPT ![i] = RolledBack(o, FailureResult(o.kind))]
  /\ ReleaseLocks(i)
  /\ UNCHANGED <<absences, slots, credits, absSeq, slotSeq, inbox>>

\* The statement an open transaction runs next (any one between BEGIN and
\* COMMIT, COMMIT included) is refused by the server: the query rejects and
\* control passes to the catch block. The connection stays usable, so the
\* ROLLBACK of the catch block succeeds.
StorageError(i) ==
  /\ i \in Running
  /\ CaughtError(i, ops[i])

\* Requests about tomorrow's classes, any of whose transactions may fail.
NextFault ==
  \/ \E u \in Members, hint \in ClassIds \cup {NoClass} :
       ProcessAbsenceBegin(AbsenceMsg(FreshUid, u, Tomorrow, hint), u, Tomorrow, hint, MaxOps)
  \/ \E u \in Members, c \in ClassIds :
       MakeupBegin(MakeupMsg(FreshUid, u, Tomorrow, c), u, Tomorrow, c, MaxOps)
  \/ \E instr \in Instructors, c \in ClassIds :
       HandleInstructorAddSlotSelection(AddSlotMsg(FreshUid, instr, Tomorrow, c),
                                        instr, Tomorrow, c, MaxOps)
  \/ \E i \in 1..MaxOps : Step(i)
  \/ \E i \in 1..MaxOps : StorageError(i)

SpecFault == Init /\ [][NextFault]_vars

\* ------------------------------------------------------ webhook deliveries
\* The provider delivers the message of operation j again, with the provider
\* id it had: the webhook runs insertInboxRecord and then the same handler on
\* the same content, whatever the insert found.
Redelivery(j, budget) ==
  /\ j \in OpIds
  /\ LET o == ops[j]
     IN \/ /\ o.kind = "absence"
           /\ ProcessAbsenceBegin(o.msg, o.user, o.ymd, o.ct, budget)
        \/ /\ o.kind = "makeup"
           /\ MakeupBegin(o.msg, o.user, o.ymd, o.ct, budget)
        \/ /\ o.kind = "addslot"
           /\ HandleInstructorAddSlotSelection(o.msg, o.user, o.ymd, o.ct, budget)

\* const client = await pool.connect() rejects (no connection can be had):
\* the statement stands before the try block, so the async handler's promise
\* rejects; nothing is recorded or processed and no response is sent.
PoolConnectFails(m, u, d, c, budget) ==
  /\ Len(ops) < budget
  /\ ops' = Append(ops, [NewOp(m, "makeup", u, d, c, "done") EXCEPT !.result = "unprocessed"])
  /\ UNCHANGED <<absences, slots, credits, absSeq, slotSeq, creditLock, slotLock, inbox>>

\* processAbsence commits and its instructor notification fails
PA_CreditCommitUnnotified(i) == PA_CommitNotify(i, FALSE)

\* Two open slots in c1 tomorrow; m1 holds two credits, m3 one.
InitWebhook ==
  InitWith({ManualSlot(1, FocusClass, FocusDate), ManualSlot(2, FocusClass, FocusDate)},
           [u \in {"m1", "m3"} |-> IF u = "m1" THEN 2 ELSE 1])

\* Deliveries about tomorrow, first or repeated, with any class hint; the
\* connection, a statement or the notification may fail.
NextWebhook ==
  \/ \E u \in Members, hint \in TemplateIds \cup {NoClass} :
       ProcessAbsenceBegin(AbsenceMsg(FreshUid, u, FocusDate, hint),
                           u, FocusDate, hint, MaxDeliveries)
  \/ \E u \in Members, c \in ClassIds :
       MakeupBegin(MakeupMsg(FreshUid, u, FocusDate, c), u, FocusDate, c, MaxDeliveries)
  \/ \E instr \in Instructors :
       HandleInstructorAddSlotSelection(AddSlotMsg(FreshUid, instr, FocusDate, FocusClass),
                                        instr, FocusDate, FocusClass, MaxDeliveries)
  \/ \E j \in 1..MaxDeliveries : Redelivery(j, MaxDeliveries)
  \/ \E u \in Members :
       PoolConnectFails(MakeupMsg(FreshUid, u, FocusDate, FocusClass),
                        u, FocusDate, FocusClass, MaxDeliveries)
  \/ \E i \in 1..MaxDeliveries : Step(i)
  \/ \E i \in 1..MaxDeliveries : PA_CreditCommitUnnotified(i)
  \/ \E i \in 1..MaxDeliveries : StorageError(i)

SpecWebhook == InitWebhook /\ [][NextWebhook]_vars

\* ============================================================ the dispatcher
\* Who can write to the service: the active members, a member whose account
\* is inactive, the instructor, and a number the directory does not know.
InactiveMembers == {"m0"}
UnknownSenders == {"x1"}
Senders == Members \cup InactiveMembers \cup Instructors \cup UnknownSenders

\* resolveSenderType: the users table is asked first, then instructors
resolveSenderType(wa) ==
  IF wa \in Members \cup InactiveMembers
  THEN [type |-> "user", id |-> wa, active |-> wa \in Members]
  ELSE IF wa \in Instructors
       THEN [type |-> "instructor", id |-> wa, active |-> TRUE]
       ELSE [type |-> "none", id |-> NoUser, active |-> FALSE]

\* What a handler decides for one message: whether it took the message
\* (handled), the branch it ran, the ledger operation it calls ("none" or
\* processAbsence / reserveMakeupSlot / addManualSlot, with the class hint it
\* passes), the replies it sends itself, and whether it raised.
NotHandled ==
  [handled |-> FALSE, branch |-> "none", call |-> "none", hint |-> NoClass,
   replies |-> <<>>, raised |-> FALSE]
Replied(branch, replies) ==
  [handled |-> TRUE, branch |-> branch, call |-> "none", hint |-> NoClass,
   replies |-> replies, raised |-> FALSE]
Calls(branch, call, hint) ==
  [handled |-> TRUE, branch |-> branch, call |-> call, hint |-> hint,
   replies |-> <<>>, raised |-> FALSE]
Raised(branch, replies) ==
  [handled |-> TRUE, branch |-> branch, call |-> "none", hint |-> NoClass,
   replies |-> replies, raised |-> TRUE]

\* Number(parts[2]) || null, parseInt(parts[..], 10): the field is a number
IsNumber(c) == c \in TemplateIds

\* id.startsWith('absence_') / 'makeup_' / 'menu_' / 'instr_'
AbsenceIds == {"absence", "absence_other_date", "absence_more_yes", "absence_more_no"}
MakeupIds == {"makeup"}
MenuIds == {"menu_absence", "menu_makeup", "menu_credits", "menu_end", "menu_other"}
InstrIds == {"instr_today", "instr_tomorrow", "instr_absences_7d", "instr_add_slot",
             "instr_stats_7d", "instr_end", "instr_addslot", "instr_other"}

\* handleInstructorAddSlotSelection up to its INSERT: the id must have four
\* fields and a numeric class
ParseAddSlotId(m) ==
  IF m.n # 4 \/ ~IsNumber(m.c)
  THEN Replied("addslot_malformed", <<"could_not_understand">>)
  ELSE Calls("addslot", "addManualSlot", m.c)

\* the panel without its first line: the sender's type is not looked at
handleInstructorInteractive_AnySender(sender, m) ==
  IF m.shape # "list_reply" THEN NotHandled
  ELSE CASE m.tag = "instr_today" -> Replied("instr_today", <<"classes_today">>)
         [] m.tag = "instr_tomorrow" -> Replied("instr_tomorrow", <<"classes_tomorrow">>)
         [] m.tag = "instr_absences_7d" -> Replied("instr_absences_7d", <<"absences_7d">>)
         [] m.tag = "instr_add_slot" -> Replied("instr_add_slot", <<"addslot_menu">>)
         [] m.tag = "instr_stats_7d" -> Replied("instr_stats_7d", <<"stats_7d">>)
         [] m.tag = "instr_end" -> Replied("instr_end", <<"goodbye">>)
         [] m.tag = "instr_addslot" -> ParseAddSlotId(m)
         [] OTHER -> NotHandled

\* if (!sender || sender.type !== 'instructor' || !sender.active) return false;
\* then the rows of the instructor's list by id
handleInstructorInteractive(sender, m) ==
  IF sender.type # "instructor" \/ ~sender.active THEN NotHandled
  ELSE IF m.shape # "list_reply" THEN NotHandled
  ELSE CASE m.tag = "instr_today" -> Replied("instr_today", <<"classes_today">>)
         [] m.tag = "instr_tomorrow" -> Replied("instr_tomorrow", <<"classes_tomorrow">>)
         [] m.tag = "instr_absences_7d" -> Replied("instr_absences_7d", <<"absences_7d">>)
         [] m.tag = "instr_add_slot" -> Replied("instr_add_slot", <<"addslot_menu">>)
         [] m.tag = "instr_stats_7d" -> Replied("instr_stats_7d", <<"stats_7d">>)
         [] m.tag = "instr_end" -> Replied("instr_end", <<"goodbye">>)
         [] m.tag = "instr_addslot" -> ParseAddSlotId(m)
         [] OTHER -> NotHandled

handleMainMenuInteractive(sender, m) ==
  IF sender.type # "user" \/ ~sender.active THEN NotHandled
  ELSE IF m.shape = "list_reply"
  THEN CASE m.tag = "menu_absence" -> Replied("menu_absence", <<"upcoming_classes_menu">>)
         [] m.tag = "menu_makeup" -> Replied("menu_makeup", <<"makeup_menu">>)
         [] m.tag = "menu_credits" -> Replied("menu_credits", <<"credits_info">>)
         [] m.tag = "menu_end" -> Replied("menu_end", <<"goodbye">>)
         [] OTHER -> NotHandled
  ELSE IF m.shape = "button_reply"
  THEN CASE m.tag = "credits_makeup" -> Replied("credits_makeup", <<"makeup_menu">>)
         [] m.tag \in {"credits_menu", "no_credits_menu"} ->
              Replied("credits_menu", <<"main_menu">>)
         [] m.tag = "no_credits_end" -> Replied("no_credits_end", <<"goodbye">>)
         [] OTHER -> NotHandled
  ELSE NotHandled

\* handleMakeupInteractive asking for a member but not for an active one
handleMakeupInteractive_AnyMember(sender, m) ==
  IF sender.type # "user" THEN NotHandled
  ELSE IF m.shape # "list_reply" \/ m.tag \notin MakeupIds THEN NotHandled
  ELSE IF m.n # 3 \/ ~IsNumber(m.c)
       THEN Replied("makeup_malformed", <<"could_not_understand">>)
       ELSE Calls("makeup", "reserveMakeupSlot", m.c)

handleMakeupInteractive(sender, m) ==
  IF sender.type # "user" \/ ~sender.active THEN NotHandled
  ELSE IF m.shape # "list_reply" \/ m.tag \notin MakeupIds THEN NotHandled
  ELSE IF m.n # 3 \/ ~IsNumber(m.c)
       THEN Replied("makeup_malformed", <<"could_not_understand">>)
       ELSE Calls("makeup", "reserveMakeupSlot", m.c)

\* handleAbsenceInteractive without its first line, the role check
handleAbsenceInteractive_NoRoleGate(sender, m) ==
  IF m.shape = "list_reply"
  THEN IF m.tag \notin AbsenceIds THEN NotHandled
       ELSE IF m.tag = "absence_other_date"
            THEN Replied("absence_other_date", <<"absence_date_prompt">>)
       ELSE IF m.n < 3 THEN NotHandled
       ELSE Calls("absence", "processAbsence", IF IsNumber(m.c) THEN m.c ELSE NoClass)
  ELSE IF m.shape = "button_reply"
  THEN CASE m.tag = "absence_more_yes" ->
              Replied("absence_more_yes", <<"upcoming_classes_menu">>)
         [] m.tag = "absence_more_no" -> Replied("absence_more_no", <<"main_menu">>)
         [] OTHER -> NotHandled
  ELSE NotHandled

handleAbsenceInteractive(sender, m) ==
  IF sender.type # "user" \/ ~sender.active THEN NotHandled
  ELSE IF m.shape = "list_reply"
  THEN IF m.tag \notin AbsenceIds THEN NotHandled
       ELSE IF m.tag = "absence_other_date"
            THEN Replied("absence_other_date", <<"absence_date_prompt">>)
       ELSE IF m.n < 3 THEN NotHandled
       ELSE Calls("absence", "processAbsence", IF IsNumber(m.c) THEN m.c ELSE NoClass)
  ELSE IF m.shape = "button_reply"
  THEN CASE m.tag = "absence_more_yes" ->
              Replied("absence_more_yes", <<"upcoming_classes_menu">>)
         [] m.tag = "absence_more_no" -> Replied("absence_more_no", <<"main_menu">>)
         [] OTHER -> NotHandled
  ELSE NotHandled

\* parseMainMenuChoice: the text is exactly '1', '2', '3' or '4'
parseMainMenuChoice(m) ==
  CASE m.tag = "1" -> "absence"
    [] m.tag = "2" -> "makeup"
    [] m.tag = "3" -> "credits"
    [] m.tag = "4" -> "end"
    [] OTHER -> "none"

\* parseAbsenceCommand: "zwalniam dd/mm", with or without "o hh:mm"; what it
\* returns is the date alone
parseAbsenceCommand(m) ==
  IF m.tag = "zwalniam" THEN [ok |-> TRUE, ymd |-> m.d] ELSE [ok |-> FALSE, ymd |-> 0]

\* step 3 of the webhook, a text of an active member: the menu choice, then
\* the absence command, then the greeting with the main menu. The credits
\* choice sends the balance and its follow-up and then reads `rows`, a name
\* no declaration in scope binds: a ReferenceError.
ActiveMemberText(m) ==
  LET choice == parseMainMenuChoice(m)
  IN CASE choice = "absence" -> Replied("choice_absence", <<"upcoming_classes_menu">>)
       [] choice = "makeup" -> Replied("choice_makeup", <<"makeup_menu">>)
       [] choice = "credits" -> Raised("choice_credits", <<"credits_info">>)
       [] choice = "end" -> Replied("choice_end", <<"goodbye">>)
       [] OTHER -> IF parseAbsenceCommand(m).ok
                   THEN Calls("absence_command", "processAbsence", NoClass)
                   ELSE Replied("greeting", <<"greeting", "main_menu">>)

\* the interactive handlers in the webhook's order, the first that takes the
\* message
Interactive(sender, m) ==
  IF m.shape = "text" THEN NotHandled
  ELSE IF handleInstructorInteractive(sender, m).handled
       THEN handleInstructorInteractive(sender, m)
  ELSE IF handleMainMenuInteractive(sender, m).handled
       THEN handleMainMenuInteractive(sender, m)
  ELSE IF handleMakeupInteractive(sender, m).handled
       THEN handleMakeupInteractive(sender, m)
  ELSE handleAbsenceInteractive(sender, m)

\* what the webhook does with one message after recording it in the inbox
Dispatch(m) ==
  LET sender == resolveSenderType(m.from)
      h == Interactive(sender, m)
  IN IF h.handled THEN h
     ELSE IF sender.type = "none" THEN Replied("unknown_sender", <<"not_recognized">>)
     ELSE IF sender.type = "instructor"
          THEN Replied("instructor_menu", <<"instructor_menu">>)
     ELSE IF ~sender.active THEN Replied("inactive_member", <<"inactive_ack">>)
     ELSE IF m.shape = "text" THEN ActiveMemberText(m)
     ELSE NotHandled

\* ------------------------------------------------- one POST of the provider
\* the provider id of the k-th message of the POST being handled
BatchUid(k) == Len(ops) + k

\* a message the webhook has answered itself, without a ledger operation
RepliedOp(m, r) ==
  [NewOp(m, "reply", m.from, m.d, m.c, "done") EXCEPT
     !.result = r.branch, !.replies = r.replies, !.raised = r.raised, !.http = 200]

\* a message of the POST that the loop never reached
SkippedOp(m) ==
  [NewOp(m, "skipped", m.from, m.d, m.c, "done") EXCEPT
     !.result = "unprocessed", !.http = 200]

\* for (const m of v.messages) { ... } inside the one try block of the
\* handler: the messages from the k-th on are handled in order; an error
\* raised while one is handled passes to the catch behind the loops, which
\* logs it, and the messages after it are not looked at
RECURSIVE HandleMessages(_, _)
HandleMessages(batch, k) ==
  IF k > Len(batch) THEN <<>>
  ELSE LET r == Dispatch(batch[k])
       IN IF r.raised
          THEN <<RepliedOp(batch[k], r)>>
               \o [j \in 1..(Len(batch) - k) |-> SkippedOp(batch[k + j])]
          ELSE <<RepliedOp(batch[k], r)>> \o HandleMessages(batch, k + 1)

\* A POST whose messages the webhook answers itself: every message the loop
\* reaches is recorded in the inbox and answered; then 200 is returned.
WebhookBatch(batch, budget) ==
  /\ Len(ops) + Len(batch) <= budget
  /\ \A k \in 1..Len(batch) : Dispatch(batch[k]).call = "none"
  /\ LET done == HandleMessages(batch, 1)
     IN /\ ops' = ops \o done
        /\ inbox' = inbox \cup {done[k].provider_uid :
                                  k \in {j \in 1..Len(done) : done[j].kind = "reply"}}
  /\ UNCHANGED <<absences, slots, credits, absSeq, slotSeq, creditLock, slotLock>>

\* A POST of one message that a handler turns into a ledger operation, with
\* the arguments the handler parsed out of the message.
WebhookLedger(m, budget) ==
  LET r == Dispatch(m)
  IN \/ /\ r.call = "processAbsence"
        /\ ProcessAbsenceBegin(m, m.from, m.d, r.hint, budget)
     \/ /\ r.call = "reserveMakeupSlot"
        /\ MakeupBegin(m, m.from, m.d, r.hint, budget)
     \/ /\ r.call = "addManualSlot"
        /\ HandleInstructorAddSlotSelection(m, m.from, m.d, r.hint, budget)

\* reserveMakeupSlot commits, the confirmation is delivered, and the INSERT
\* of its audit row is refused
MK_DebitCommitUnaudited(i) == MK_CommitConfirm(i, FALSE)

\* What every kind of sender may send: a text that is no command, the absence
\* command without and with a time (18:00), a row of each list, a yes/no
\* button.
CommonMessages(uid, from) ==
  {Msg(uid, from, "text", "other", 0, 0, NoClass, NoTime),
   Msg(uid, from, "text", "zwalniam", 0, Tomorrow, NoClass, NoTime),
   Msg(uid, from, "text", "zwalniam", 0, Tomorrow, NoClass, 18),
   Msg(uid, from, "list_reply", "absence", 3, Tomorrow, FocusClass, NoTime),
   Msg(uid, from, "list_reply", "makeup", 3, Tomorrow, FocusClass, NoTime),
   Msg(uid, from, "list_reply", "instr_addslot", 4, Tomorrow, FocusClass, NoTime),
   Msg(uid, from, "list_reply", "menu_absence", 0, 0, NoClass, NoTime),
   Msg(uid, from, "button_reply", "absence_more_yes", 0, 0, NoClass, NoTime)}

\* Further messages of the member enrolled in c1 (18:00) and c2 (10:00)
\* tomorrow: the four menu digits, the command with a past date,
\* ids with a field missing or a class that is no number, other menu rows.
EnrolledMember == "m2"
MemberMessages(uid) ==
  {Msg(uid, EnrolledMember, "text", t, 0, 0, NoClass, NoTime) : t \in {"1", "2", "3", "4"}}
  \cup {Msg(uid, EnrolledMember, "text", "zwalniam", 0, Tomorrow - 7, NoClass, NoTime),
        Msg(uid, EnrolledMember, "list_reply", "absence", 2, Tomorrow, NoClass, NoTime),
        Msg(uid, EnrolledMember, "list_reply", "absence", 3, Tomorrow, NotANumber, NoTime),
        Msg(uid, EnrolledMember, "list_reply", "makeup", 2, Tomorrow, NoClass, NoTime),
        Msg(uid, EnrolledMember, "list_reply", "makeup", 3, Tomorrow, NotANumber, NoTime),
        Msg(uid, EnrolledMember, "button_reply", "other", 0, 0, NoClass, NoTime)}
  \cup {Msg(uid, EnrolledMember, "list_reply", t, 0, 0, NoClass, NoTime) :
          t \in {"menu_makeup", "menu_credits", "menu_end", "menu_other"}}

\* Further messages of the instructor
InstructorMessages(uid) ==
  {Msg(uid, "i1", "list_reply", "instr_today", 0, 0, NoClass, NoTime),
   Msg(uid, "i1", "list_reply", "instr_other", 0, 0, NoClass, NoTime),
   Msg(uid, "i1", "list_reply", "instr_addslot", 3, Tomorrow, NoClass, NoTime),
   Msg(uid, "i1", "list_reply", "instr_addslot", 4, Tomorrow, NotANumber, NoTime)}

Messages(uid) ==
  UNION {CommonMessages(uid, from) : from \in Senders}
  \cup MemberMessages(uid) \cup InstructorMessages(uid)

\* The messages a POST with several messages is made of: texts of a member
\* and of a number nobody knows
BatchMessages(uid) ==
  {Msg(uid, EnrolledMember, "text", t, 0, 0, NoClass, NoTime) : t \in {"1", "3", "other"}}
  \cup {Msg(uid, "x1", "text", "other", 0, 0, NoClass, NoTime)}

\* the POSTs of 2..MaxBatch messages
Batches ==
  UNION {{b \in [1..n -> BatchMessages(0)] : TRUE} : n \in 2..MaxBatch}
WithUids(b) == [k \in 1..Len(b) |-> [b[k] EXCEPT !.id = BatchUid(k)]]

\* One POST at a time, of any sender and shape; a statement or the audit of
\* the makeup confirmation may fail.
NextDispatch ==
  \/ /\ Running = {} /\ Len(ops) < MaxMessages
     /\ \E m \in Messages(BatchUid(1)) : WebhookLedger(m, MaxMessages)
  \/ /\ Len(ops) < MaxMessages
     /\ \E m \in Messages(BatchUid(1)) : WebhookBatch(<<m>>, MaxMessages)
  \/ /\ Len(ops) + 2 <= MaxMessages
     /\ \E b \in Batches : WebhookBatch(WithUids(b), MaxMessages)
  \/ \E i \in 1..MaxMessages : Step(i)
  \/ \E i \in 1..MaxMessages : MK_DebitCommitUnaudited(i)
  \/ \E i \in 1..MaxMessages : StorageError(i)

SpecDispatch == InitWebhook /\ [][NextDispatch]_vars

\* --------------------------------------- the resolver of the earlier draft
\* resolveClassTemplateIdForAbsence({user_id, session_date, session_time}) of
\* the draft whose command parser keeps the time. With a time: the classes of
\* the timetable that start then on the date's weekday; one such class is
\* returned as it is, several are narrowed to the member's enrollments.
\* Without a time: the member's only enrollment on that weekday, else the only
\* class of the day.
RunsOnWeekday(d) ==
  {c \in TemplateIds : /\ class_templates[c].is_active
                        /\ class_templates[c].weekday_iso = ISODOW(d)}
StartsAt(d, t) == {c \in RunsOnWeekday(d) : class_templates[c].start_time = t}
EnrolledIn(u, S) == {c \in S : <<u, c>> \in enrollments}
Resolved(c, via) == [ok |-> TRUE, class_template_id |-> c, via |-> via]
NotResolved(reason) == [ok |-> FALSE, class_template_id |-> NoClass, via |-> reason]
OnlyOf(S) == CHOOSE c \in S : TRUE

resolveClassTemplateIdForAbsence(u, d, t) ==
  IF t # NoTime
  THEN LET cand == StartsAt(d, t)
           byEnr == EnrolledIn(u, cand)
       IN IF Cardinality(cand) = 1 THEN Resolved(OnlyOf(cand), "ct_by_time")
          ELSE IF Cardinality(cand) > 1
               THEN IF Cardinality(byEnr) = 1
                    THEN Resolved(OnlyOf(byEnr), "enrollment_by_time")
                    ELSE NotResolved("ambiguous_day_requires_time")
               ELSE NotResolved("no_slot_for_date")
  ELSE LET enr == EnrolledIn(u, RunsOnWeekday(d))
           onlyCt == RunsOnWeekday(d)
       IN IF Cardinality(enr) = 1 THEN Resolved(OnlyOf(enr), "enrollment_by_day")
          ELSE IF Cardinality(enr) > 1 THEN NotResolved("ambiguous_day_requires_time")
          ELSE IF Cardinality(onlyCt) = 1 THEN Resolved(OnlyOf(onlyCt), "ct_by_day")
          ELSE IF Cardinality(onlyCt) = 0 THEN NotResolved("no_slot_for_date")
          ELSE NotResolved("ambiguous_day_requires_time")

\* ------------------------------------------- the year of a dd/mm command
\* the days of a (non-leap) year before the first of a month
DaysBefore(month) ==
  CASE month = 1 -> 0 [] month = 2 -> 31 [] month = 3 -> 59 [] month = 4 -> 90
    [] month = 5 -> 120 [] month = 6 -> 151 [] month = 7 -> 181 [] month = 8 -> 212
    [] month = 9 -> 243 [] month = 10 -> 273 [] month = 11 -> 304 [] OTHER -> 334
DayOfYear(month, day) == DaysBefore(month) + day

\* The year parseAbsenceCommand puts in front of dd/mm, counted from the
\* current year (0: this year, 1: the next). now is some time after midnight
\* of nowDay/nowMonth; the candidate is midnight of day/month this year.
\* The next year is taken only in December, for a candidate more than seven
\* days back.
InferYear(nowMonth, nowDay, month, day) ==
  IF nowMonth = 12 /\ DayOfYear(month, day) + 7 < DayOfYear(nowMonth, nowDay) + 1
  THEN 1
  ELSE 0

\* the days of a month the commands are tried with
SampleDays == {1, 15, 28}

\* a command "dd/mm" read at nowDay/nowMonth, not parsed yet
ParseInput(nowMonth, nowDay, month, day) ==
  [kind |-> "parse", pc |-> "read",
   nowMonth |-> nowMonth, nowDay |-> nowDay, month |-> month, day |-> day,
   year |-> 0]

\* Any dd/mm command on any day of the calendar, nothing else going on.
InitParse ==
  /\ absences = {} /\ slots = {} /\ credits = [u \in {} |-> 0]
  /\ absSeq = 0 /\ slotSeq = 0
  /\ creditLock = [u \in Members |-> 0] /\ slotLock = {} /\ inbox = {}
  /\ \E nowMonth \in 1..12, month \in 1..12, nowDay \in SampleDays, day \in SampleDays :
       ops = <<ParseInput(nowMonth, nowDay, month, day)>>

\* parseAbsenceCommand returns { ymd: `${year}-${mm}-${dd}` }
ParseAbsenceCommand ==
  /\ ops[1].pc = "read"
  /\ ops' = <<[ops[1] EXCEPT
                 !.pc = "done",
                 !.year = InferYear(ops[1].nowMonth, ops[1].nowDay,
                                    ops[1].month, ops[1].day)]>>
  /\ UNCHANGED <<absences, slots, credits, absSeq, slotSeq, creditLock, slotLock, inbox>>

NextParse == ParseAbsenceCommand

SpecParse == InitParse /\ [][NextParse]_vars

\* --------------------------------------------- phones and the two rosters
\* A phone as the provider or a roster writes it: digits with or without a
\* leading '+'. NoPhone is a column that is NULL.
Phones == [plus : BOOLEAN, digits : 1..5]
NoPhone == [plus |-> FALSE, digits |-> 0]
PlusForm(n) == [plus |-> TRUE, digits |-> n]
BareForm(n) == [plus |-> FALSE, digits |-> n]

\* public.users and public.instructors as far as the lookup reads them. m1 is
\* stored in both columns, m2 in phone_e164 only, m3 in phone_raw only (with
\* the '+'), m0 is inactive; the number of m1 is also the number of the
\* instructor i2; nobody has number 5.
UserRoster ==
  {[id |-> "m1", active |-> TRUE, phone_e164 |-> PlusForm(1), phone_raw |-> BareForm(1)],
   [id |-> "m2", active |-> TRUE, phone_e164 |-> PlusForm(2), phone_raw |-> NoPhone],
   [id |-> "m3", active |-> TRUE, phone_e164 |-> NoPhone, phone_raw |-> PlusForm(3)],
   [id |-> "m0", active |-> FALSE, phone_e164 |-> NoPhone, phone_raw |-> BareForm(3)]}
InstructorRoster ==
  {[id |-> "i1", active |-> TRUE, phone_e164 |-> PlusForm(4), phone_raw |-> NoPhone],
   [id |-> "i2", active |-> TRUE, phone_e164 |-> NoPhone, phone_raw |-> BareForm(1)]}

\* WHERE phone_e164 = $1 OR phone_raw = $2 OR phone_raw = $1 with
\* $1 = waPlus = '+' + waBare and $2 = waBare = wa without a leading '+'
MatchingRows(roster, wa) ==
  LET waBare == BareForm(wa.digits)
      waPlus == PlusForm(wa.digits)
  IN {r \in roster : \/ r.phone_e164 = waPlus
                     \/ r.phone_raw = waBare
                     \/ r.phone_raw = waPlus}

\* resolveSenderType asking the instructors before the users
SenderRows_InstructorsFirst(wa) ==
  IF MatchingRows(InstructorRoster, wa) # {}
  THEN {[type |-> "instructor", id |-> r.id, active |-> r.active] :
          r \in MatchingRows(InstructorRoster, wa)}
  ELSE IF MatchingRows(UserRoster, wa) # {}
       THEN {[type |-> "user", id |-> r.id, active |-> r.active] :
               r \in MatchingRows(UserRoster, wa)}
       ELSE {[type |-> "none", id |-> NoUser, active |-> FALSE]}

\* resolveSenderType on phones: what it may return for wa. LIMIT 1 without
\* ORDER BY returns any one of the matching rows.
SenderRows(wa) ==
  IF MatchingRows(UserRoster, wa) # {}
  THEN {[type |-> "user", id |-> r.id, active |-> r.active] :
          r \in MatchingRows(UserRoster, wa)}
  ELSE IF MatchingRows(InstructorRoster, wa) # {}
       THEN {[type |-> "instructor", id |-> r.id, active |-> r.active] :
               r \in MatchingRows(InstructorRoster, wa)}
       ELSE {[type |-> "none", id |-> NoUser, active |-> FALSE]}

\* One call of resolveSenderType: two SELECTs at most, and the result
ResolveSender(wa, budget) ==
  /\ Len(ops) < budget
  /\ \E sender \in SenderRows(wa) :
       ops' = Append(ops, [kind |-> "resolve", pc |-> "done", wa |-> wa,
                           sender |-> sender])
  /\ UNCHANGED <<absences, slots, credits, absSeq, slotSeq, creditLock, slotLock, inbox>>

\* Lookups of any phone in either form, over the workload's ledgers.
NextResolve == \E wa \in Phones : ResolveSender(wa, MaxLookups)

SpecResolve == InitWebhook /\ [][NextResolve]_vars

\* ----------------------------------------------------------- outbound sends
\* What one HTTP call to the provider ends in: a response with a status (and,
\* with 429, a retry-after header in seconds, 0 when absent or not positive),
\* or an exception of fetch, whose message may look like a network failure.
Response(status, retryAfter) ==
  [status |-> status, retryAfter |-> retryAfter, exc |-> "none"]
Exception(msg) == [status |-> 0, retryAfter |-> 0, exc |-> msg]
HttpOutcomes ==
  {Response(st, 0) : st \in {200, 400, 408, 500}}
  \cup {Response(429, ra) : ra \in {0, 1, 30}}
  \cup {Exception(msg) : msg \in {"fetch failed", "other"}}

\* resp.ok
Ok(r) == r.exc = "none" /\ r.status >= 200 /\ r.status <= 299

\* is5xx || is408 || is429, and the test of the exception's message
RetriableStatus(r) ==
  r.exc = "none" /\ ((r.status >= 500 /\ r.status <= 599) \/ r.status \in {408, 429})
RetriableException(r) == r.exc = "fetch failed"

\* OUTBOUND_RETRY_BASE_MS * 2^(attempt - 1), in milliseconds
OUTBOUND_RETRY_BASE_MS == 800
RECURSIVE Pow2(_)
Pow2(n) == IF n = 0 THEN 1 ELSE 2 * Pow2(n - 1)
Backoff(attempt) == OUTBOUND_RETRY_BASE_MS * Pow2(attempt - 1)

\* Math.floor(delay * Math.random() * 0.3): the least and the greatest value
Jitters(delay) == {0, (3 * delay) \div 10 - 1}

\* the delay before the next attempt: the backoff with its jitter, raised to
\* the retry-after hint of a 429 when that is a positive number
RetryDelay(attempt, jitter, r) ==
  LET delay == Backoff(attempt) + jitter
      raMs == r.retryAfter * 1000
  IN IF r.status = 429 /\ raMs > 0 /\ raMs > delay THEN raMs ELSE delay

\* the loop retrying while attempt <= OUTBOUND_MAX_RETRIES + 1
MayRetry_OneMore(attempt) == attempt <= OUTBOUND_MAX_RETRIES + 1

\* attempt <= OUTBOUND_MAX_RETRIES
MayRetry(attempt) == attempt <= OUTBOUND_MAX_RETRIES

\* One call of a send function. proc is the function: "sendText" (the one the
\* handlers call), "sendTextRetrying" and "sendTemplate" (the draft with
\* retries). outcomes are the HTTP calls made so far, delays the sleeps after
\* them, audits the statuses of the outbound_messages rows written.
SendCall(proc, configured) ==
  [kind |-> "send", proc |-> proc, configured |-> configured, pc |-> "start",
   attempt |-> 0, outcomes |-> <<>>, delays |-> <<>>, audits |-> <<>>,
   result |-> "", raised |-> FALSE]

SendProcs == {"sendText", "sendTextRetrying", "sendTemplate"}

\* A send begins, with or without the provider's token and phone id set.
InitSend ==
  /\ absences = {} /\ slots = {} /\ credits = [u \in {} |-> 0]
  /\ absSeq = 0 /\ slotSeq = 0
  /\ creditLock = [u \in Members |-> 0] /\ slotLock = {} /\ inbox = {}
  /\ \E proc \in SendProcs, configured \in BOOLEAN :
       ops = <<SendCall(proc, configured)>>

SendUnchanged ==
  UNCHANGED <<absences, slots, credits, absSeq, slotSeq, creditLock, slotLock, inbox>>

\* sendText of the handlers: without configuration an audit row 'skipped';
\* else one postWA, then an audit row 'sent' or 'error'. An exception of fetch
\* leaves postWA and sendText as it is: no row is written.
SendText(r) ==
  LET o == ops[1]
  IN /\ o.proc = "sendText" /\ o.pc = "start"
     /\ ops' = <<IF ~o.configured
                 THEN [o EXCEPT !.pc = "done", !.audits = <<"skipped">>,
                                !.result = "missing_config"]
                 ELSE IF r.exc # "none"
                 THEN [o EXCEPT !.pc = "done", !.attempt = 1,
                                !.outcomes = <<r>>, !.raised = TRUE]
                 ELSE [o EXCEPT !.pc = "done", !.attempt = 1, !.outcomes = <<r>>,
                                !.audits = <<IF Ok(r) THEN "sent" ELSE "error">>,
                                !.result = IF Ok(r) THEN "ok" ELSE "http_error"]>>
     /\ SendUnchanged

\* the rows the retrying sendText writes and sendTemplate does not
Audited(o, status) == IF o.proc = "sendTemplate" THEN o.audits ELSE Append(o.audits, status)

\* the retrying functions up to their loop: without configuration they
\* return missing_config (sendText after an audit row 'skipped'); else
\* sendText writes the row 'queued'
RetryingStart ==
  LET o == ops[1]
  IN /\ o.proc # "sendText" /\ o.pc = "start"
     /\ ops' = <<IF ~o.configured
                 THEN [o EXCEPT !.pc = "done", !.audits = Audited(o, "skipped"),
                                !.result = "missing_config"]
                 ELSE [o EXCEPT !.pc = "attempt", !.audits = Audited(o, "queued")]>>
     /\ SendUnchanged

\* one turn of while (true): attempt += 1, the HTTP call, and what follows it
RetryingAttempt(r, jitter) ==
  LET o == ops[1]
      attempt == o.attempt + 1
      called == [o EXCEPT !.attempt = attempt, !.outcomes = Append(o.outcomes, r)]
  IN /\ o.proc # "sendText" /\ o.pc = "attempt"
     /\ ops' = <<IF Ok(r)
                 THEN [called EXCEPT !.pc = "done", !.result = "ok",
                                     !.audits = Audited(o, "sent")]
                 ELSE IF (RetriableStatus(r) \/ RetriableException(r)) /\ MayRetry(attempt)
                 THEN [called EXCEPT !.pc = "sleep",
                                     !.delays = Append(o.delays,
                                                       RetryDelay(attempt, jitter, r))]
                 ELSE IF r.exc = "none"
                 THEN [called EXCEPT !.pc = "done", !.result = "http_error"]
                 ELSE [called EXCEPT !.pc = "done", !.result = "exception",
                                     !.audits = Audited(o, "error")]>>
     /\ SendUnchanged

\* await sleep(delay); continue
RetryingWake ==
  /\ ops[1].pc = "sleep"
  /\ ops' = <<[ops[1] EXCEPT !.pc = "attempt"]>>
  /\ SendUnchanged

NextSend ==
  \/ \E r \in HttpOutcomes : SendText(r)
  \/ RetryingStart
  \/ \E r \in HttpOutcomes, jitter \in Jitters(Backoff(ops[1].attempt + 1)) :
       RetryingAttempt(r, jitter)
  \/ RetryingWake

SpecSend == InitSend /\ [][NextSend]_vars

\* every await of the send functions returns in the end: the HTTP call
\* answers or throws, the timer of sleep fires
SpecSendFair == SpecSend /\ WF_vars(NextSend)

\* ------------------------------------------------ claimants of one occurrence
\* Reservations of class c1 tomorrow, for which two slots are open; m1 and m3
\* hold credit, nothing fails.
NextClaimants ==
  \/ \E u \in Members :
       MakeupBegin(MakeupMsg(FreshUid, u, FocusDate, FocusClass),
                   u, FocusDate, FocusClass, MaxOps)
  \/ \E i \in 1..MaxOps : MK_LockCredit(i)
  \/ \E i \in 1..MaxOps : MK_SelectSlot(i)
  \/ \E i \in 1..MaxOps : MK_TakeSlot(i)
  \/ \E i \in 1..MaxOps : MK_DebitCommit(i)

SpecClaimants == InitWebhook /\ [][NextClaimants]_vars

\* ------------------------------------------------ concurrent transactions
\* Two open slots in c1 tomorrow; every member has a credit row with one
\* credit (m2 got its own from an absence reported earlier).
InitTransactions ==
  InitWith({ManualSlot(1, FocusClass, FocusDate), ManualSlot(2, FocusClass, FocusDate)},
           [u \in Members |-> 1])

\* Absence reports and slot claims about tomorrow by any member, started while
\* others are still open.
NextTransactions ==
  \/ \E u \in Members, hint \in ClassIds \cup {NoClass} :
       ProcessAbsenceBegin(AbsenceMsg(FreshUid, u, FocusDate, hint),
                           u, FocusDate, hint, MaxOps)
  \/ \E u \in Members, c \in ClassIds :
       MakeupBegin(MakeupMsg(FreshUid, u, FocusDate, c), u, FocusDate, c, MaxOps)
  \/ \E i \in 1..MaxOps : Step(i)

SpecTransactions == InitTransactions /\ [][NextTransactions]_vars

\* A handler goes on when the statement it awaits returns: a transaction whose
\* next statement can run is not left waiting for ever.
SpecTransactionsFair ==
  SpecTransactions /\ \A i \in 1..MaxOps : WF_vars(Step(i))

\* ------------------------------- reserveOpenSlot (keyword-driven reservation)
\* The reservation of the draft that reads the keyword "rezerwuję <date>
\* [<time>]": the webhook resolves the class, checks level and price and calls
\* reserveOpenSlot({user_id, class_template_id, session_date, session_time})
\* on the connection of the request.
\* what the webhook answers for the function's result
ReserveReplies(result) ==
  CASE result = "reserved" -> <<"reserved">>
    [] result = "already_taken_by_user" -> <<"already_reserved">>
    [] result = "race_lost" -> <<"race_lost">>
    [] OTHER -> <<"reserve_failed">>

\* ROLLBACK or COMMIT has returned and the function returns `result`
ReserveEnded(o, result) ==
  [o EXCEPT !.pc = "done", !.result = result, !.http = 200,
            !.replies = ReserveReplies(result),
            !.wAbs = {}, !.wSlots = {}, !.wTaken = {}, !.wCredit = {}]

ReserveBegin(m, u, d, c, budget) ==
  /\ CanStart(budget)
  /\ InsertInboxRecord(m)
  /\ ops' = Append(ops, NewOp(m, "reserve", u, d, c, "ro_select"))
  /\ UNCHANGED <<absences, slots, credits, absSeq, slotSeq, creditLock, slotLock>>

\* 1) the open slots of (class, date) that no other transaction has locked
\*    (FOR UPDATE OF s SKIP LOCKED); with a time, those of a class starting then
OpenSlotsFor(i, c, d, t) ==
  {s \in slots : /\ s.class_template_id = c
                 /\ s.session_date = d
                 /\ s.status = "open"
                 /\ t # NoTime => class_templates[c].start_time = t
                 /\ ~LockedByOther(i, s.id)}

\*    With a time: ORDER BY ... s.id ... LIMIT 1, the first row is locked and
\*    reserved; none -> no_slot_for_time. Without a time every row found is
\*    locked: none -> no_open_slot_for_date, several ->
\*    ambiguous_day_requires_time, one -> that row is reserved.
RO_Select(i) ==
  /\ i \in OpIds /\ ops[i].pc = "ro_select"
  /\ LET o == ops[i]
         t == o.msg.time
         found == OpenSlotsFor(i, o.ct, o.ymd, t)
     IN IF found = {} \/ (t = NoTime /\ Cardinality(found) > 1)
          THEN /\ ops' = [ops EXCEPT ![i] =
                            ReserveEnded(o, IF found # {} THEN "ambiguous_day_requires_time"
                                            ELSE IF t = NoTime THEN "no_open_slot_for_date"
                                            ELSE "no_slot_for_time")]
               /\ ReleaseLocks(i)
          ELSE \E s \in FirstById(found) :
                 /\ ops' = [ops EXCEPT ![i] = [o EXCEPT !.pc = "ro_dup", !.slot_id = s.id]]
                 /\ slotLock' = slotLock \cup {[slot |-> s.id, op |-> i]}
                 /\ UNCHANGED creditLock
  /\ UNCHANGED <<absences, slots, credits, absSeq, slotSeq, inbox>>

\* 2) SELECT 1 FROM slots WHERE class_template_id, session_date,
\*    taken_by_user_id = $3 AND status = 'taken': a plain read, which sees the
\*    committed rows
TakenByUser(u, c, d) ==
  {s \in slots : /\ s.class_template_id = c /\ s.session_date = d
                 /\ s.taken_by_user_id = u /\ s.status = "taken"}

RO_Dup(i) ==
  /\ i \in OpIds /\ ops[i].pc = "ro_dup"
  /\ LET o == ops[i]
     IN IF TakenByUser(o.user, o.ct, o.ymd) # {}
          THEN /\ ops' = [ops EXCEPT ![i] = ReserveEnded(o, "already_taken_by_user")]
               /\ ReleaseLocks(i)
          ELSE /\ ops' = [ops EXCEPT ![i].pc = "ro_take"]
               /\ UNCHANGED <<creditLock, slotLock>>
  /\ UNCHANGED <<absences, slots, credits, absSeq, slotSeq, inbox>>

\* 3) UPDATE slots SET status = 'taken', taken_by_user_id = $1 WHERE id = $2
\*    AND status = 'open' RETURNING id: no row -> ROLLBACK, race_lost; else
\*    COMMIT, via 'reserved'
RO_TakeCommit(i) ==
  /\ i \in OpIds /\ ops[i].pc = "ro_take"
  /\ LET o == ops[i]
         hit == {s \in slots : s.id = o.slot_id /\ s.status = "open"}
     IN IF hit = {}
          THEN /\ ops' = [ops EXCEPT ![i] = ReserveEnded(o, "race_lost")]
               /\ ReleaseLocks(i)
               /\ UNCHANGED <<absences, slots, credits, absSeq, slotSeq, inbox>>
          ELSE Commit(i, [o EXCEPT !.wTaken = {o.slot_id}], ReserveEnded(o, "reserved"))

\* Reservation requests of any member for c1 tomorrow, with the class's time
\* (18:00) or without a time, started while others are still open; two slots
\* are open at first.
NextReserve ==
  \/ \E u \in Members, t \in {NoTime, class_templates[FocusClass].start_time} :
       ReserveBegin(Msg(FreshUid, u, "text", "rezerwuje", 0, FocusDate, NoClass, t),
                    u, FocusDate, FocusClass, MaxOps)
  \/ \E i \in 1..MaxOps : RO_Select(i)
  \/ \E i \in 1..MaxOps : RO_Dup(i)
  \/ \E i \in 1..MaxOps : RO_TakeCommit(i)

SpecReserve == InitWebhook /\ [][NextReserve]_vars

\* ================================================================ properties
\* helpers over the recorded operations
MakeupOps(c, d) ==
  {i \in OpIds : ops[i].kind = "makeup" /\ ops[i].ct = c /\ ops[i].ymd = d}

\* neither operation had ended when the other arrived
Overlap(i, j) == i \notin ops[j].after /\ j \notin ops[i].after

SlotsOn(c, d) == {s \in slots : s.class_template_id = c /\ s.session_date = d}

AbsencesOn(u, c, d) ==
  {a \in absences : a.user_id = u /\ a.class_template_id = c /\ a.session_date = d}

\* ----------------------------------------------------------------------- C1
\* The case of C1: at least two makeup requests for (c, d), all ended, by
\* distinct members who each held a credit and pass the slot query's
\* eligibility filters; (c, d) has exactly one slot and it was open when each
\* request arrived; none of these members spends a credit elsewhere.
SingleSlotRace(c, d) ==
  LET K == MakeupOps(c, d)
  IN /\ Cardinality(K) >= 2
     /\ K \subseteq Finished
     /\ \A i, j \in K : i # j => ops[i].user # ops[j].user
     /\ \A i \in K : ops[i].creditAtStart >= 1 /\ Eligible(ops[i].user, c)
     /\ Cardinality(SlotsOn(c, d)) = 1
     /\ \A i \in K : ops[i].openAtStart = {s.id : s \in SlotsOn(c, d)}
     /\ \A j \in OpIds \ K :
          ops[j].kind = "makeup" => \A i \in K : ops[j].user # ops[i].user

\* C1: when makeup requests by distinct members with credit race for the one
\* open slot of (c, d), exactly one of them commits and the slot is taken by
\* that member; every other request ends slot_unavailable.
C1_ExactlyOneTakesTheSlot ==
  \A c \in ClassIds, d \in Dates :
    SingleSlotRace(c, d) =>
      \E w \in MakeupOps(c, d) :
        /\ ops[w].result = "ok"
        /\ \A i \in MakeupOps(c, d) \ {w} : ops[i].result = "slot_unavailable"
        /\ \A s \in SlotsOn(c, d) :
             /\ s.status = "taken"
             /\ s.taken_by_user_id = ops[w].user
             /\ s.id = ops[w].slot_id

\* two overlapping requests raced for the single slot and both have ended
C1_Witness ==
  \E c \in ClassIds, d \in Dates :
    /\ SingleSlotRace(c, d)
    /\ \E i, j \in MakeupOps(c, d) :
         /\ i # j /\ Overlap(i, j)
         /\ ops[i].result = "ok"
         /\ ops[j].result = "slot_unavailable" /\ ops[j].balance >= 1

\* ----------------------------------------------------------------------- C2
\* no balance is negative, and a makeup request that has read a balance <= 0
\* has ended with no_credit without selecting or writing a slot
C2_State ==
  /\ \A u \in DOMAIN credits : credits[u] >= 0
  /\ \A i \in OpIds :
       (ops[i].kind = "makeup" /\ ops[i].pc # "mk_credit" /\ ops[i].balance <= 0)
         => /\ ops[i].pc = "done" /\ ops[i].result = "no_credit"
            /\ ops[i].slot_id = NoId /\ ops[i].wTaken = {}

\* the credit check of a member with balance <= 0 or without a credit row
\* ends the request with no_credit and changes no slot, lock or balance
C2_Step ==
  \A i \in OpIds :
    (/\ ops[i].kind = "makeup" /\ ops[i].pc = "mk_credit"
     /\ ops'[i].pc # "mk_credit"
     /\ ReadBalance(ops[i].user) <= 0)
      => /\ ops'[i].pc = "done" /\ ops'[i].result = "no_credit"
         /\ slots' = slots /\ slotLock' = slotLock /\ credits' = credits

\* C2: under any interleaving of absence reports, makeup requests and manual
\* slots every balance stays >= 0, and a makeup request of a member whose
\* balance is <= 0 (or who has no credit row) is rejected with no_credit
\* without changing any slot.
C2_NoNegativeCredit == []C2_State /\ [][C2_Step]_vars

\* a member spent the last credit, asked for another slot that is still open
\* and was refused with no_credit; a member without a credit row was refused
\* as well
C2_Witness ==
  /\ \E i, j \in OpIds :
       /\ ops[i].kind = "makeup" /\ ops[i].result = "ok"
       /\ ops[j].kind = "makeup" /\ ops[j].user = ops[i].user
       /\ ops[j].result = "no_credit"
       /\ credits[ops[j].user] = 0
       /\ ops[j].openAtStart # {}
       /\ ops[j].openAtStart \subseteq OpenSlotIds(ops[j].ct, ops[j].ymd)

\* a member without a credit row asked for an open slot and was refused
C2_WitnessNoRow ==
  \E j \in OpIds :
    /\ ops[j].kind = "makeup" /\ ops[j].user \notin DOMAIN credits
    /\ ops[j].result = "no_credit"
    /\ ops[j].openAtStart # {}

\* ----------------------------------------------------------------------- C3
MakeupOpsOf(u) == {i \in OpIds : ops[i].kind = "makeup" /\ ops[i].user = u}

\* The case of C3: at least two makeup requests of member u, all ended, each
\* of which arrived while u's balance was 1 (so none had committed when another
\* arrived) and asked for an occurrence with an open slot u is eligible for;
\* nobody else claims a slot and u reports no absence meanwhile.
SameMemberRace(u) ==
  LET K == MakeupOpsOf(u)
  IN /\ Cardinality(K) >= 2
     /\ K \subseteq Finished
     /\ \A i \in K : /\ ops[i].creditAtStart = 1
                     /\ ops[i].openAtStart # {}
                     /\ Eligible(u, ops[i].ct)
     /\ \A j \in OpIds \ K :
          /\ ops[j].kind # "makeup"
          /\ ~(ops[j].kind = "absence" /\ ops[j].user = u)

\* C3: of the concurrent makeup requests of one member with balance 1,
\* possibly for different open slots, exactly one succeeds and the others end
\* no_credit or slot_unavailable; the balance ends at 0 and is never negative.
C3_OneCreditOneSlot ==
  /\ \A u \in Members : ReadBalance(u) >= 0
  /\ \A u \in Members :
       SameMemberRace(u) =>
         /\ \E w \in MakeupOpsOf(u) :
              /\ ops[w].result = "ok"
              /\ \A i \in MakeupOpsOf(u) \ {w} :
                   ops[i].result \in {"no_credit", "slot_unavailable"}
         /\ credits[u] = 0

\* two overlapping requests of one member for slots of different classes
C3_Witness ==
  \E u \in Members :
    /\ SameMemberRace(u)
    /\ \E i, j \in MakeupOpsOf(u) :
         /\ Overlap(i, j)
         /\ ops[i].ct # ops[j].ct
         /\ ops[i].result = "ok"
         /\ ops[j].result = "no_credit"
         /\ ops[j].openAtStart \subseteq OpenSlotIds(ops[j].ct, ops[j].ymd)

\* ----------------------------------------------------------------------- C4
\* The case of C4: absence report j repeats report i (same member, date and
\* class hint), arrived after i had committed and has ended; the member made
\* no other request.
SequentialRepeat(i, j) ==
  /\ ops[i].kind = "absence" /\ ops[j].kind = "absence"
  /\ ops[i].user = ops[j].user /\ ops[i].ymd = ops[j].ymd /\ ops[i].ct = ops[j].ct
  /\ i \in ops[j].after
  /\ ops[i].result = "ok"
  /\ ops[j].pc = "done"
  /\ \A k \in OpIds \ {i, j} : ops[k].user # ops[i].user

\* C4: reporting the same absence twice in sequence leaves exactly one Absence
\* row, exactly one Slot linked to it and the balance one higher than before
\* the first report; the second report returns already_absent.
C4_RepeatedReportIsNoOp ==
  \A i, j \in OpIds :
    SequentialRepeat(i, j) =>
      /\ ops[j].result = "already_absent"
      /\ ops[j].absenceId = ops[i].absenceId
      /\ Cardinality(AbsencesOn(ops[i].user, ops[i].classTemplateId,
                                ops[i].ymd)) = 1
      /\ Cardinality(SlotsOfAbsence(slots, ops[i].absenceId)) = 1
      /\ ops[i].user \in DOMAIN credits
      /\ credits[ops[i].user] = ops[i].creditAtStart + 1

\* a report was committed and then repeated
C4_Witness ==
  \E i, j \in OpIds :
    /\ SequentialRepeat(i, j)
    /\ ops[j].result = "already_absent"
    /\ absences # {}

\* ----------------------------------------------------------------------- C5
\* the absence reports for (u, c, d) that committed
OkAbsenceOps(u, c, d) ==
  {i \in OpIds : /\ ops[i].kind = "absence" /\ ops[i].result = "ok"
                 /\ ops[i].user = u /\ ops[i].classTemplateId = c
                 /\ ops[i].ymd = d}

OkAbsenceOpsOf(u) ==
  {i \in OpIds : ops[i].kind = "absence" /\ ops[i].result = "ok" /\ ops[i].user = u}

OkMakeupOpsOf(u) ==
  {i \in OpIds : ops[i].kind = "makeup" /\ ops[i].result = "ok" /\ ops[i].user = u}

InitBalance(u) == IF u \in DOMAIN InitCredits THEN InitCredits[u] ELSE 0

\* C5: however absence reports for the same (member, class, date) interleave,
\* at most one Absence row exists for the key and at most one of the reports
\* commits; a balance is the initial one plus one per committed report minus
\* one per committed makeup, so the credit is incremented at most once per key.
C5_OneAbsencePerKey ==
  /\ \A u \in Members, c \in ClassIds, d \in Dates :
       /\ Cardinality(AbsencesOn(u, c, d)) <= 1
       /\ Cardinality(OkAbsenceOps(u, c, d)) <= 1
       /\ Cardinality(OkAbsenceOps(u, c, d)) = Cardinality(AbsencesOn(u, c, d))
  /\ \A u \in Members :
       ReadBalance(u) = InitBalance(u) + Cardinality(OkAbsenceOpsOf(u))
                          - Cardinality(OkMakeupOpsOf(u))

\* two overlapping reports for the same key both passed the lookup; one
\* committed, the other's INSERT was refused by the unique index
C5_Witness ==
  \E i, j \in OpIds :
    /\ ops[i].kind = "absence" /\ ops[j].kind = "absence"
    /\ Overlap(i, j)
    /\ ops[i].user = ops[j].user /\ ops[i].ymd = ops[j].ymd
    /\ ops[i].classTemplateId = ops[j].classTemplateId
    /\ ops[i].result = "ok"
    /\ ops[j].result = "exception"
    /\ Cardinality(AbsencesOn(ops[i].user, ops[i].classTemplateId, ops[i].ymd)) = 1
    /\ credits[ops[i].user] = ops[i].creditAtStart + 1

\* ----------------------------------------------------------------------- C6
\* C6: an absence report without a class hint, for a date that is not past, by
\* a member with two or more active classes on that date's weekday ends with
\* ambiguous_day_requires_time: no class is picked and no absence recorded.
C6_AmbiguousDayIsRefused ==
  \A i \in OpIds :
    (/\ ops[i].kind = "absence" /\ ops[i].ct = NoClass
     /\ ~IsPast(ops[i].ymd)
     /\ Cardinality(ClassesOnDay(ops[i].user, ops[i].ymd)) >= 2
     /\ ops[i].pc = "done")
      => /\ ops[i].result = "ambiguous_day_requires_time"
         /\ ops[i].classTemplateId = NoClass
         /\ ops[i].absenceId = NoId

\* ----------------------------------------------------------------------- C7
\* a report for a past date has ended with past_date; no class was resolved
\* and no absence inserted for it
C7_State ==
  \A i \in OpIds :
    (ops[i].kind = "absence" /\ IsPast(ops[i].ymd))
      => /\ ops[i].pc = "done" /\ ops[i].result = "past_date"
         /\ ops[i].classTemplateId = NoClass
         /\ ops[i].absenceId = NoId

\* the step that handles a report for a past date changes no ledger
C7_Step ==
  (/\ Len(ops') = Len(ops) + 1
   /\ ops'[Len(ops')].kind = "absence"
   /\ IsPast(ops'[Len(ops')].ymd))
    => /\ absences' = absences /\ slots' = slots /\ credits' = credits
       /\ absSeq' = absSeq /\ slotSeq' = slotSeq

\* C7: an absence report for a date before today returns past_date whatever
\* the member and the class hint, before any class is resolved, and leaves the
\* Absence, Slot and Credit ledgers unchanged.
C7_PastDateIsRefused == []C7_State /\ [][C7_Step]_vars

\* refused although the class would resolve: the member attends the hinted
\* class and it runs on that weekday
C7_Witness ==
  \E i \in OpIds :
    /\ ops[i].kind = "absence" /\ IsPast(ops[i].ymd)
    /\ ops[i].ct # NoClass /\ HintMatches(ops[i].user, ops[i].ymd, ops[i].ct)
    /\ ops[i].result = "past_date"

\* ----------------------------------------------------------------------- C8
Failures == {"exception", "failure"}

\* all or nothing: the ledgers hold exactly the writes of the operations that
\* committed
C8_State ==
  /\ \A a \in absences :
       \E i \in OpIds : /\ ops[i].kind = "absence" /\ ops[i].result = "ok"
                        /\ ops[i].absenceId = a.id
                        /\ <<ops[i].user, ops[i].classTemplateId, ops[i].ymd>>
                             = <<a.user_id, a.class_template_id, a.session_date>>
  /\ \A s \in slots :
       /\ s.source_absence_id # NoId => \E a \in absences : a.id = s.source_absence_id
       /\ s.status = "taken" =>
            \E i \in OpIds : /\ ops[i].kind = "makeup" /\ ops[i].result = "ok"
                             /\ ops[i].slot_id = s.id
                             /\ ops[i].user = s.taken_by_user_id
  /\ \A i \in OpIds :
       /\ (ops[i].kind = "absence" /\ ops[i].result = "ok") =>
            /\ \E a \in absences : a.id = ops[i].absenceId
            /\ Cardinality({s \in slots : s.source_absence_id = ops[i].absenceId}) = 1
       /\ (ops[i].kind = "makeup" /\ ops[i].result = "ok") =>
            \E s \in slots : /\ s.id = ops[i].slot_id /\ s.status = "taken"
                             /\ s.taken_by_user_id = ops[i].user
  /\ \A u \in Members :
       ReadBalance(u) = InitBalance(u) + Cardinality(OkAbsenceOpsOf(u))
                          - Cardinality(OkMakeupOpsOf(u))

\* a ledger changes only in the step in which an operation commits, and the
\* step in which a transaction fails changes none
C8_Step ==
  /\ (absences' # absences \/ slots' # slots \/ credits' # credits) =>
       \E i \in 1..Len(ops') :
         /\ ops'[i].result = "ok"
         /\ i \in OpIds => ops[i].result # "ok"
  /\ \A i \in OpIds :
       (ops[i].pc # "done" /\ ops'[i].result \in Failures) =>
         /\ ops'[i].pc = "done"
         /\ absences' = absences /\ slots' = slots /\ credits' = credits

SlotOfReport(i) == {s \in slots : s.source_absence_id = ops[i].absenceId}

\* report i of member M committed and is M's only request
RoundTripReport(i) ==
  /\ ops[i].kind = "absence" /\ ops[i].result = "ok"
  /\ \A x \in OpIds \ {i} : ops[x].user # ops[i].user

\* after report i, eligible member N with a credit asked (request j) for the
\* occurrence whose only open slot was the one of report i; the request has
\* ended, it is N's only one, and no other makeup request for that occurrence
\* arrived before it ended
RoundTripClaim(i, j) ==
  /\ RoundTripReport(i)
  /\ ops[j].kind = "makeup" /\ ops[j].pc = "done"
  /\ ops[j].ct = ops[i].classTemplateId /\ ops[j].ymd = ops[i].ymd
  /\ ops[j].user # ops[i].user
  /\ i \in ops[j].after
  /\ Eligible(ops[j].user, ops[j].ct) /\ ops[j].creditAtStart >= 1
  /\ ops[j].openAtStart = {s.id : s \in SlotOfReport(i)}
  /\ \A x \in OpIds \ {j} : ops[x].user # ops[j].user
  /\ \A x \in MakeupOps(ops[j].ct, ops[j].ymd) \ {j} : j \in ops[x].after

\* after request j, a third member P asked (request k) for the same occurrence,
\* which has no other slot; the request has ended and is P's only one
RoundTripSecond(i, j, k) ==
  /\ RoundTripClaim(i, j)
  /\ ops[k].kind = "makeup" /\ ops[k].pc = "done"
  /\ ops[k].ct = ops[j].ct /\ ops[k].ymd = ops[j].ymd
  /\ ops[k].user \notin {ops[i].user, ops[j].user}
  /\ j \in ops[k].after
  /\ SlotsOn(ops[k].ct, ops[k].ymd) = SlotOfReport(i)
  /\ \A x \in OpIds \ {k} : ops[x].user # ops[k].user

\* what the round trip leaves after the report and after N's request
RoundTripLedger ==
  /\ \A i \in OpIds :
       RoundTripReport(i) =>
         /\ Cardinality(SlotOfReport(i)) = 1
         /\ \A s \in SlotOfReport(i) :
              /\ s.class_template_id = ops[i].classTemplateId
              /\ s.session_date = ops[i].ymd
         /\ ReadBalance(ops[i].user) = ops[i].creditAtStart + 1
  /\ \A i, j \in OpIds :
       RoundTripClaim(i, j) =>
         /\ ops[j].result = "ok"
         /\ \A s \in SlotOfReport(i) :
              /\ s.status = "taken" /\ s.taken_by_user_id = ops[j].user
              /\ s.id = ops[j].slot_id
         /\ ReadBalance(ops[j].user) = ops[j].creditAtStart - 1

\* C9 as stated: after M's report and N's successful request, the request of
\* any third member P for the same occurrence ends slot_unavailable and leaves
\* P's credit unchanged.
C9_RoundTrip ==
  /\ RoundTripLedger
  /\ \A i, j, k \in OpIds :
       RoundTripSecond(i, j, k) =>
         /\ ops[k].result = "slot_unavailable"
         /\ ReadBalance(ops[k].user) = ops[k].creditAtStart

\* C9 amended: the request of the third member P ends slot_unavailable when P
\* holds a credit and no_credit when P holds none; in both cases P's credit is
\* unchanged and the slot stays taken by N.
C9_RoundTripAmended ==
  /\ RoundTripLedger
  /\ \A i, j, k \in OpIds :
       RoundTripSecond(i, j, k) =>
         /\ ops[k].result = IF ops[k].creditAtStart >= 1 THEN "slot_unavailable"
                                                        ELSE "no_credit"
         /\ ReadBalance(ops[k].user) = ops[k].creditAtStart
         /\ \A s \in SlotOfReport(i) : s.taken_by_user_id = ops[j].user

\* the whole round trip with a third member who holds a credit
C9_Witness ==
  \E i, j, k \in OpIds :
    /\ RoundTripSecond(i, j, k)
    /\ ops[j].result = "ok"
    /\ ops[k].creditAtStart >= 1
    /\ ops[k].result = "slot_unavailable"

\* ---------------------------------------------------------------------- C10
SourcedFrom(absenceId) == {s \in slots : s.source_absence_id = absenceId}

\* C10: no absence id is the source of more than one Slot, and every
\* committed absence report has exactly one Slot linked to its Absence, open or
\* taken, for the same class and date.
C10_OneSlotPerAbsence ==
  /\ \A x \in 1..absSeq : Cardinality(SourcedFrom(x)) <= 1
  /\ \A a \in absences :
       /\ Cardinality(SourcedFrom(a.id)) = 1
       /\ \A s \in SourcedFrom(a.id) :
            /\ s.class_template_id = a.class_template_id
            /\ s.session_date = a.session_date
            /\ s.status \in {"open", "taken"}
  /\ \A i \in OpIds :
       (ops[i].kind = "absence" /\ ops[i].result = "ok") =>
         \E a \in absences :
           /\ a.id = ops[i].absenceId
           /\ AbsenceKey(a) = <<ops[i].user, ops[i].classTemplateId, ops[i].ymd>>

\* a committed report whose slot has since been taken by another member
C10_Witness ==
  \E i \in OpIds :
    /\ ops[i].kind = "absence" /\ ops[i].result = "ok"
    /\ \E s \in SourcedFrom(ops[i].absenceId) :
         s.status = "taken" /\ s.taken_by_user_id # ops[i].user

\* ---------------------------------------------------------------------- C11
AbsencesOf(u) == {a \in absences : a.user_id = u}
SlotsTakenBy(u) == {s \in slots : s.status = "taken" /\ s.taken_by_user_id = u}

\* the balance is the initial one plus the member's Absence rows minus the
\* Slot rows the member has taken
C11_State ==
  \A u \in Members :
    ReadBalance(u) = InitBalance(u) + Cardinality(AbsencesOf(u))
                       - Cardinality(SlotsTakenBy(u))

\* a step changes a balance by +1 together with one new Absence of the member,
\* or by -1 together with one Slot newly taken by the member
C11_Step ==
  \A u \in Members :
    LET before == ReadBalance(u)
        after == IF u \in DOMAIN credits' THEN credits'[u] ELSE 0
        newAbs == {a \in absences' : a.user_id = u} \ AbsencesOf(u)
        newTaken == {s \in slots' : s.status = "taken" /\ s.taken_by_user_id = u}
                      \ SlotsTakenBy(u)
    IN /\ after # before =>
            \/ after = before + 1 /\ Cardinality(newAbs) = 1 /\ newTaken = {}
            \/ after = before - 1 /\ Cardinality(newTaken) = 1 /\ newAbs = {}
       /\ after = before => newAbs = {} /\ newTaken = {}

\* C11: a balance changes only by +1 when an Absence of the member is created
\* and by -1 when the member takes a Slot, so it always equals the initial
\* balance plus the member's Absences minus the Slots the member has taken.
C11_BalanceIsLedgerSum == []C11_State /\ [][C11_Step]_vars

\* one member has reported an absence and another has taken a slot
C11_Witness ==
  \E u, v \in Members :
    /\ AbsencesOf(u) # {} /\ ReadBalance(u) = InitBalance(u) + 1
    /\ SlotsTakenBy(v) # {} /\ ReadBalance(v) = InitBalance(v) - 1

\* the operations run for deliveries of one provider id that changed the ledger
OkWithUid(uid, kind) ==
  {i \in OpIds : /\ ops[i].provider_uid = uid
                 /\ ops[i].kind = kind
                 /\ ops[i].pc = "done" /\ ops[i].result = "ok"}

\* the deliveries of one absence selection create at most one Absence between
\* them (the half of C12 that the lookup and the unique index provide)
RedeliveredAbsenceIsNoOp ==
  \A uid \in inbox : Cardinality(OkWithUid(uid, "absence")) <= 1

\* C12: however often the provider delivers the event with one provider id, the
\* ledger is changed for it at most once: a redelivered makeup selection takes
\* no second slot and debits no second credit, a redelivered absence selection
\* creates no second absence, slot or credit.
C12_RedeliveryMutatesNothing ==
  \A uid \in inbox :
    /\ Cardinality(OkWithUid(uid, "makeup")) <= 1
    /\ Cardinality(OkWithUid(uid, "absence")) <= 1

\* the step is the whole of an addManualSlot request
AddSlotStep ==
  /\ Len(ops') = Len(ops) + 1
  /\ ops'[Len(ops')].kind = "addslot"

C13_Step ==
  AddSlotStep =>
    LET o == ops'[Len(ops')]
    IN (~IsPast(o.ymd) /\ class_templates[o.ct].instructor_id = o.user) =>
         /\ o.result = "ok"
         /\ slots \subseteq slots'
         /\ Cardinality(slots' \ slots) = 1
         /\ \A s \in slots' \ slots :
              /\ s.class_template_id = o.ct /\ s.session_date = o.ymd
              /\ s.status = "open"
              /\ s.source_absence_id = NoId
              /\ s.taken_by_user_id = NoUser
         /\ credits' = credits
         /\ absences' = absences

\* C13: addManualSlot by the class's own instructor for a date that is not
\* past adds exactly one Slot row, open, with no source absence and no taker,
\* and leaves every other Slot, every credit balance and every Absence as it was.
C13_AddSlotAddsOneOpenSlot == [][C13_Step]_vars

\* an instructor has added a place to their own class: the row is there, open
\* and unsourced, next to the rows that were there before
C13_Witness ==
  \E i \in OpIds :
    /\ ops[i].kind = "addslot" /\ ops[i].result = "ok"
    /\ OwnsClass(ops[i].user, ops[i].ct) /\ ~IsPast(ops[i].ymd)
    /\ \E s \in slots : /\ s \notin InitSlots
                         /\ s.class_template_id = ops[i].ct
                         /\ s.session_date = ops[i].ymd
                         /\ s.status = "open" /\ s.source_absence_id = NoId
    /\ InitSlots \subseteq slots

C14_Step ==
  AddSlotStep =>
    LET o == ops'[Len(ops')]
    IN /\ IsPast(o.ymd) => o.result = "past_date"
       /\ (~IsPast(o.ymd) /\ class_templates[o.ct].instructor_id # o.user)
            => o.result = "not_owner"
       /\ o.result \in {"past_date", "not_owner"} =>
            /\ slots' = slots /\ slotSeq' = slotSeq
            /\ credits' = credits /\ absences' = absences

\* C14: addManualSlot for a past date is refused with past_date, for a class
\* of another instructor with not_owner, and a refused request leaves the Slot
\* ledger (and the rest of the data) unchanged.
C14_RefusedAddSlotInsertsNothing == [][C14_Step]_vars

\* both refusals have happened and the slots are the initial ones
C14_Witness ==
  /\ \E i \in OpIds : ops[i].kind = "addslot" /\ ops[i].result = "past_date"
  /\ \E i \in OpIds : ops[i].kind = "addslot" /\ ops[i].result = "not_owner"
  /\ slots = InitSlots

\* member u attends class c, an active class of the weekday of date d
EnrolledOn(u, c, d) ==
  /\ \E e \in enrollments : e[1] = u /\ e[2] = c
  /\ class_templates[c].is_active
  /\ ISODOW(d) = class_templates[c].weekday_iso

RunsOn(d) ==
  {c \in TemplateIds : class_templates[c].is_active
                         /\ ISODOW(d) = class_templates[c].weekday_iso}

SlotRow(S, id) == {s \in S : s.id = id}

\* a transaction's pending UPDATE ... SET status = 'taken' is on a row whose
\* committed status is open
C17_State ==
  \A i \in OpIds : \A id \in ops[i].wTaken :
    \A s \in SlotRow(slots, id) : s.status = "open"

\* a taken row stays as it is; a row that changes was open and becomes taken
C17_Step ==
  \A s \in slots :
    /\ s.status = "taken" => s \in slots'
    /\ s \notin slots' =>
         /\ s.status = "open"
         /\ \A t \in SlotRow(slots', s.id) :
              t = [s EXCEPT !.status = "taken", !.taken_by_user_id = t.taken_by_user_id]
         /\ SlotRow(slots', s.id) # {}

\* C17: a Slot only ever goes from open to taken: a taken Slot's status and
\* taker are never changed again, and the write that marks a Slot taken acts
\* on a row whose status is open when it is written.
C17_OpenToTakenIsOneWay == []C17_State /\ [][C17_Step]_vars

\* a member holds a slot, and a later request of another member for the same
\* class and date has ended without it
C17_Witness ==
  \E i, j \in OpIds :
    /\ ops[i].kind = "makeup" /\ ops[i].result = "ok"
    /\ ops[j].kind = "makeup" /\ ops[j].pc = "done" /\ i \in ops[j].after
    /\ ops[j].user # ops[i].user
    /\ ops[j].ct = ops[i].ct /\ ops[j].ymd = ops[i].ymd
    /\ \E s \in SlotRow(slots, ops[i].slot_id) :
         s.status = "taken" /\ s.taken_by_user_id = ops[i].user

Attends(u, c) == \E e \in enrollments : e[1] = u /\ e[2] = c

\* C18: no Slot is ever taken by a member enrolled in the Slot's class: a
\* makeup request for a class the member attends never succeeds, and when the
\* member has credit it ends in slot_unavailable although slots of that class
\* and date are open, the one opened by the member's own absence included.
C18_NoSlotInOwnClass ==
  /\ \A s \in slots :
       s.status = "taken" => ~Attends(s.taken_by_user_id, s.class_template_id)
  /\ \A i \in OpIds :
       LET o == ops[i]
       IN (o.kind = "makeup" /\ o.pc = "done" /\ Attends(o.user, o.ct))
          => /\ o.result # "ok"
             /\ o.creditAtStart > 0 /\ o.after = OpIds \ {i}
                  => o.result = "slot_unavailable"

\* a member has reported an absence, which opened a slot, then asked for a
\* makeup in that same class and date and was told no slot is available
C18_Witness ==
  \E i, j \in OpIds :
    /\ ops[i].kind = "absence" /\ ops[i].result = "ok"
    /\ ops[j].kind = "makeup" /\ i \in ops[j].after
    /\ ops[j].user = ops[i].user /\ Attends(ops[j].user, ops[j].ct)
    /\ ops[j].ct = ops[i].classTemplateId /\ ops[j].ymd = ops[i].ymd
    /\ \E s \in slots : /\ s.source_absence_id = ops[i].absenceId
                         /\ s.id \in ops[j].openAtStart
                         /\ s.status = "open"
    /\ ops[j].result = "slot_unavailable"

\* C16: a report whose class hint is not an active enrollment of the member on
\* the date's weekday ends as the same report without a hint would: it is
\* refused with no_enrollment_for_weekday only if the enrollment-based
\* resolver finds no class for the member on that date.
C16_UnmatchedHintFallsThrough ==
  \A i \in OpIds :
    LET o == ops[i]
    IN (/\ o.kind = "absence" /\ o.pc = "done" /\ ~IsPast(o.ymd)
        /\ o.ct # NoClass /\ ~EnrolledOn(o.user, o.ct, o.ymd)
        /\ o.result = "no_enrollment_for_weekday")
       => ProcessAbsenceOutcome(o.user, o.ymd, NoClass) = {"no_enrollment_for_weekday"}

\* a report whose notification failed returned ok, and what it committed is
\* in the tables
C19_State ==
  \A i \in OpIds :
    ops[i].notify = "failed" =>
      /\ ops[i].result = "ok"
      /\ ops[i].absenceId # NoId /\ ops[i].classTemplateId \in TemplateIds
      /\ \E a \in absences : /\ a.id = ops[i].absenceId
                              /\ a.user_id = ops[i].user
                              /\ a.class_template_id = ops[i].classTemplateId
      /\ SourcedFrom(ops[i].absenceId) # {}

\* the step in which the notification fails is the step that commits the
\* Absence, its Slot and the credit
C19_Step ==
  \A i \in OpIds :
    (ops[i].notify = "" /\ ops'[i].notify = "failed") =>
      /\ Cardinality(absences' \ absences) = 1
      /\ Cardinality(slots' \ slots) = 1
      /\ credits'[ops[i].user] = ReadBalance(ops[i].user) + 1

\* C19: when the instructor notification that follows the COMMIT of
\* reportAbsence fails, the Absence, the Slot and the credit increment stay
\* committed and the operation still returns ok with the absence id and the
\* class template id.
C19_NotifyFailureChangesNothing == []C19_State /\ [][C19_Step]_vars

\* a report has committed, its notification has failed, and it returned ok
C19_Witness ==
  \E i \in OpIds :
    /\ ops[i].kind = "absence" /\ ops[i].notify = "failed"
    /\ ops[i].pc = "done" /\ ops[i].result = "ok"
    /\ \E a \in absences : a.id = ops[i].absenceId
    /\ ReadBalance(ops[i].user) = 1

\* C20: every delivery the webhook has finished with (a signature-valid POST
\* with an entry list) has been answered 200, whether its processing
\* succeeded, was refused, or failed.
C20_AlwaysAnswers200 ==
  \A i \in OpIds : ops[i].pc = "done" => ops[i].http = 200

\* C21: every message of a POST the webhook has answered was handled to
\* completion before the answer: its inbox record inserted and its dispatch
\* branch run (with the transaction of that branch committed or rolled back),
\* also when an earlier message of the same POST raised an error.
C21_WholeBatchHandled ==
  \A i \in OpIds :
    ops[i].http = 200 =>
      /\ ops[i].provider_uid \in inbox
      /\ ops[i].kind # "skipped"
      /\ ops[i].pc = "done"

\* the operations a step records
NewOps == {j \in 1..Len(ops') : j > Len(ops)}
LedgersUnchanged == UNCHANGED <<absences, slots, credits, absSeq, slotSeq>>

\* what the webhook recorded for a message of an unknown number: one reply,
\* the not-recognized text, and no ledger operation
C22_State ==
  \A i \in OpIds :
    (ops[i].msg.from \in UnknownSenders /\ ops[i].kind # "skipped") =>
      /\ ops[i].kind = "reply" /\ ops[i].pc = "done"
      /\ ops[i].replies = <<"not_recognized">>
      /\ ~ops[i].raised

\* a POST of an unknown number changes no ledger
C22_Step ==
  (NewOps # {} /\ \A j \in NewOps : ops'[j].msg.from \in UnknownSenders)
    => LedgersUnchanged

\* C22: an event from a sender in neither roster gets only the fixed
\* not-recognized message, whatever its shape (text, list reply, button reply,
\* any id), and changes no Absence, Slot or Credit.
C22_UnknownSenderOnlyNotRecognized == []C22_State /\ [][C22_Step]_vars

\* an unknown number has sent the absence command, an absence row, a makeup
\* row and a button, and got the not-recognized text each time
C22_Witness ==
  \E i, j \in OpIds :
    /\ ops[i].msg.from \in UnknownSenders /\ ops[j].msg.from \in UnknownSenders
    /\ ops[i].msg.shape = "list_reply" /\ ops[i].msg.tag \in {"absence", "makeup"}
    /\ ops[j].msg.shape = "text" /\ ops[j].msg.tag = "zwalniam"
    /\ ops[i].replies = <<"not_recognized">> /\ ops[j].replies = <<"not_recognized">>

\* what the webhook recorded for a message of an inactive member: one reply,
\* the acknowledgement, and no ledger operation
C23_State ==
  \A i \in OpIds :
    (ops[i].msg.from \in InactiveMembers /\ ops[i].kind # "skipped") =>
      /\ ops[i].kind = "reply" /\ ops[i].pc = "done"
      /\ ops[i].replies = <<"inactive_ack">>
      /\ ~ops[i].raised

\* a POST of an inactive member changes no ledger
C23_Step ==
  (NewOps # {} /\ \A j \in NewOps : ops'[j].msg.from \in InactiveMembers)
    => LedgersUnchanged

\* C23: an event from an inactive member gets only the fixed acknowledgement
\* and changes no Absence, Slot or Credit, whatever its shape, replies with
\* absence_<date>_<class> or makeup_<date>_<class> ids included.
C23_InactiveMemberOnlyAcknowledged == []C23_State /\ [][C23_Step]_vars

\* an inactive member has picked a makeup row while a slot of that class was
\* open, and an absence row, and got the acknowledgement each time
C23_Witness ==
  \E i, j \in OpIds :
    /\ ops[i].msg.from \in InactiveMembers /\ ops[j].msg.from \in InactiveMembers
    /\ ops[i].msg.tag = "makeup" /\ ops[i].msg.n = 3
    /\ ops[i].openAtStart # {}
    /\ ops[j].msg.tag = "absence" /\ ops[j].msg.n = 3
    /\ ops[i].replies = <<"inactive_ack">> /\ ops[j].replies = <<"inactive_ack">>

\* the one reply of each main-menu digit
ChoiceReply(tag) ==
  CASE tag = "1" -> <<"upcoming_classes_menu">>
    [] tag = "2" -> <<"makeup_menu">>
    [] tag = "3" -> <<"credits_info">>
    [] OTHER -> <<"goodbye">>

\* C24: a plain text of an active member runs exactly one branch, chosen in
\* the order (a) main-menu choice '1'..'4', (b) absence command, (c) greeting
\* with the main menu; each of the four menu choices sends its own reply only
\* and completes without an error.
C24_TextRunsOneBranch ==
  \A i \in OpIds :
    LET o == ops[i]
    IN (o.msg.from \in Members /\ o.msg.shape = "text" /\ o.kind # "skipped") =>
         /\ ~o.raised
         /\ o.msg.tag \in {"1", "2", "3", "4"} =>
              (o.kind = "reply" /\ o.replies = ChoiceReply(o.msg.tag))
         /\ o.msg.tag = "zwalniam" => o.kind = "absence"
         /\ o.msg.tag \notin {"1", "2", "3", "4", "zwalniam"} =>
              (o.kind = "reply" /\ o.replies = <<"greeting", "main_menu">>)

\* the branches of the plain-text parsing
TextBranches ==
  {"choice_absence", "choice_makeup", "choice_credits", "choice_end",
   "absence_command", "greeting"}

\* the id of the message belongs to a prefix family of the sender's own role
OwnFamily(m) ==
  \/ m.from \in Members /\ m.tag \in AbsenceIds \cup MakeupIds \cup MenuIds
  \/ m.from \in Instructors /\ m.tag \in InstrIds

\* C25: an interactive reply whose id belongs to a known prefix family
\* (absence_, makeup_, menu_, instr_) is dispatched by the handler of that
\* family: it never reaches the plain-text parsing and is never left without
\* a reply.
C25_KnownPrefixDispatched ==
  \A i \in OpIds :
    LET o == ops[i]
    IN (/\ o.msg.shape \in {"list_reply", "button_reply"}
        /\ OwnFamily(o.msg) /\ o.pc = "done" /\ o.kind # "skipped") =>
         /\ o.result \notin TextBranches
         /\ o.result # "none"
         /\ o.replies # <<>>

\* a finished report that recorded the Absence
ReportedOk(o) == o.kind = "absence" /\ o.pc = "done" /\ o.result = "ok"

Unresolved(o) ==
  /\ o.kind = "absence" /\ o.pc = "done"
  /\ o.result \in {"no_enrollment_for_weekday", "ambiguous_day_requires_time"}

\* C27: whenever an absence report fails because the date resolves to no
\* class (no_enrollment_for_weekday, ambiguous_day_requires_time), from the
\* typed command and from a list row alike, the upcoming-classes menu is
\* presented to the member again.
C27_UnresolvedDateShowsMenuAgain ==
  \A i \in OpIds :
    Unresolved(ops[i]) =>
      \E k \in 1..Len(ops[i].replies) : ops[i].replies[k] = "upcoming_classes_menu"

\* the messages that tell the outcome of a report or a reservation
Confirmations == {"absence_confirmed", "makeup_confirmed"}
Rejections ==
  {"already_absent", "past_date", "no_enrollment", "absence_failed",
   "no_credit", "slot_unavailable", "makeup_failed"}
OutcomeMessages(o) ==
  {k \in 1..Len(o.replies) : o.replies[k] \in Confirmations \cup Rejections}

\* C28: for one inbound event and the one operation it triggers the user is
\* sent at most one final outcome message; a success confirmation and a
\* failure or rejection message are never both sent for the same reportAbsence
\* or reserveMakeupSlot outcome.
C28_OneOutcomeMessage ==
  \A i \in OpIds :
    ops[i].kind \in {"absence", "makeup"} =>
      Cardinality(OutcomeMessages(ops[i])) <= 1

\* the number of fields of a well-formed id of each family
FieldsOf(tag) == IF tag = "instr_addslot" THEN 4 ELSE 3

\* an id of the absence_, makeup_ or instr_addslot_ family with a wrong number
\* of fields or a class field that is no number, sent by a sender of the role
\* the family belongs to
Malformed(m) ==
  /\ m.shape = "list_reply" /\ m.tag \in {"absence", "makeup", "instr_addslot"}
  /\ OwnFamily(m)
  /\ (m.n # FieldsOf(m.tag) \/ m.c \notin TemplateIds)

\* C29: a malformed interactive id (wrong field count, or a class template id
\* that is no number) in the absence_, makeup_ and instr_addslot_ families
\* starts no ledger operation, is answered with the could-not-understand
\* reply, and raises nothing.
C29_MalformedIdIsNoOp ==
  \A i \in OpIds :
    (Malformed(ops[i].msg) /\ ops[i].kind # "skipped") =>
      /\ ops[i].kind = "reply"
      /\ ops[i].replies = <<"could_not_understand">>
      /\ ~ops[i].raised

\* the member's enrollments on the weekday of the date, and those of them
\* that start at the given hour
OwnClassesOn(u, d) ==
  {c \in TemplateIds : <<u, c>> \in enrollments
                       /\ class_templates[c].weekday_iso = ISODOW(d)}
OwnClassesAt(u, d, t) == {c \in OwnClassesOn(u, d) : class_templates[c].start_time = t}

\* a finished report whose command named a time, by a member with several
\* enrollments on that weekday
TimedReport(o) ==
  /\ o.kind = "absence" /\ o.pc = "done" /\ o.msg.time # NoTime
  /\ Cardinality(OwnClassesOn(o.user, o.ymd)) > 1

\* C30: when a time is supplied and the member has several enrollments on the
\* date's weekday, the class is looked for among the member's enrollments that
\* start at the supplied time and is used only if exactly one remains; a class
\* the member is not enrolled in is never returned.
C30_TimeNarrowsEnrollments ==
  \A i \in OpIds :
    LET o == ops[i]
        r == resolveClassTemplateIdForAbsence(o.user, o.ymd, o.msg.time)
    IN /\ (TimedReport(o) /\ o.result = "ok") =>
            OwnClassesAt(o.user, o.ymd, o.msg.time) = {o.classTemplateId}
       /\ (o.kind = "absence" /\ o.msg.time # NoTime /\ r.ok) =>
            r.class_template_id \in OwnClassesOn(o.user, o.ymd)

\* C31: for a bare dd/mm command parseAbsenceCommand yields the next year
\* when the parsed month is earlier than the current month and the current
\* year otherwise, for every current month 1..12 and parsed month 1..12.
C31_NextYearIffEarlierMonth ==
  \A i \in OpIds :
    (ops[i].kind = "parse" /\ ops[i].pc = "done") =>
      ops[i].year = IF ops[i].month < ops[i].nowMonth THEN 1 ELSE 0

\* the numbers on the member roster and on the instructor roster
MemberNumbers == {1, 2, 3}
InstructorNumbers == {1, 4}

\* the role the rosters give a number
RoleOfNumber(n) ==
  IF n \in MemberNumbers THEN "user"
  ELSE IF n \in InstructorNumbers THEN "instructor"
  ELSE "none"

\* every lookup made so far returned the role of the number, whichever form
\* the phone came in
C32_State ==
  \A i \in OpIds :
    ops[i].kind = "resolve" => ops[i].sender.type = RoleOfNumber(ops[i].wa.digits)

\* a lookup changes nothing but the caller's record of it
C32_Step ==
  UNCHANGED <<absences, slots, credits, absSeq, slotSeq, creditLock, slotLock, inbox>>

\* C32: resolveSender asks the member roster first and the instructor roster
\* second, with the '+'-prefixed and the bare form of the phone: a phone on
\* both rosters resolves to member, a phone on neither to unknown, and the
\* lookup changes no state.
C32_MemberRosterFirst == []C32_State /\ [][C32_Step]_vars

\* the number on both rosters has resolved to the member, and a number on
\* neither, written with '+', to unknown
C32_Witness ==
  \E i, j \in OpIds :
    /\ ops[i].kind = "resolve" /\ ops[i].wa.digits \in MemberNumbers \cap InstructorNumbers
    /\ ops[i].sender.type = "user" /\ ops[i].sender.id = "m1"
    /\ ops[j].kind = "resolve" /\ ops[j].wa = PlusForm(5)
    /\ ops[j].sender.type = "none"

\* the audit row that tells the outcome of a finished send
OutcomeAudit(o) ==
  IF ~o.configured THEN "skipped"
  ELSE IF o.result = "ok" THEN "sent"
  ELSE "error"

\* C33: every outbound send attempt ends with an audit record of its outcome
\* (sent, error with reason, skipped with reason), whatever the outcome:
\* success, a non-OK HTTP status, missing configuration, or an exception
\* thrown by the HTTP call.
C33_EverySendAudited ==
  \A i \in OpIds :
    (/\ ops[i].kind = "send" /\ ops[i].pc = "done"
     /\ ops[i].proc \in {"sendText", "sendTextRetrying"}) =>
      /\ ops[i].audits # <<>>
      /\ ops[i].audits[Len(ops[i].audits)] = OutcomeAudit(ops[i])

\* a call of one of the retrying send functions
Retrying(o) == o.kind = "send" /\ o.proc \in {"sendTextRetrying", "sendTemplate"}

\* the HTTP call ended in 5xx, 408, 429 or an exception that reads like a
\* network failure
WorthRetrying(r) ==
  \/ r.exc = "fetch failed"
  \/ r.exc = "none" /\ (r.status \in {408, 429} \/ (r.status >= 500 /\ r.status <= 599))

\* at most OUTBOUND_MAX_RETRIES + 1 HTTP calls; a sleep (and with it a further
\* call) follows only a call that is worth retrying, and after a 429 with a
\* positive retry-after it lasts at least that long; a finished call has a
\* result
C34_State ==
  \A i \in OpIds :
    Retrying(ops[i]) =>
      /\ ops[i].attempt <= OUTBOUND_MAX_RETRIES + 1
      /\ Len(ops[i].outcomes) = ops[i].attempt
      /\ Len(ops[i].delays) = IF ops[i].pc = "done" /\ ops[i].attempt > 0
                              THEN ops[i].attempt - 1
                              ELSE ops[i].attempt
      /\ \A k \in 1..Len(ops[i].delays) :
           /\ WorthRetrying(ops[i].outcomes[k])
           /\ ops[i].outcomes[k].status = 429 =>
                ops[i].delays[k] >= ops[i].outcomes[k].retryAfter * 1000
      /\ ops[i].pc = "done" => (ops[i].result # "" /\ ~ops[i].raised)

SaidSomethingWentWrong(o) ==
  o.kind = "makeup" /\ \E k \in 1..Len(o.replies) : o.replies[k] = "makeup_failed"

\* the step in which a reservation gets the generic failure reply takes no
\* slot and debits no credit
C35_Step ==
  \A i \in OpIds :
    (~SaidSomethingWentWrong(ops[i]) /\ SaidSomethingWentWrong(ops'[i])) =>
      UNCHANGED <<slots, credits>>

\* C35: whenever handleMakeupInteractive sends the generic 'something went
\* wrong' reply the reservation was rolled back, the slot still open and the
\* member's credit unchanged; in particular an error raised while sending or
\* auditing the confirmation after COMMIT does not make the member receive a
\* failure reply for a committed reservation.
C35_FailureReplyMeansRolledBack == [][C35_Step]_vars

\* a finished report that came from a row absence_<D>_<C> of the list
FromSelection(o) ==
  /\ o.kind = "absence" /\ o.pc = "done"
  /\ o.msg.shape = "list_reply" /\ o.msg.tag = "absence"

\* C36: an absence created from a menu selection absence_<D>_<C> is recorded
\* against class template C and date D or not at all; when the class field
\* is not a positive integer the selection records no absence, it is not
\* resolved like a typed report to some class of the member on that weekday.
C36_SelectionRecordsItsOwnClass ==
  \A i \in OpIds :
    (FromSelection(ops[i]) /\ ops[i].result = "ok") =>
      /\ ops[i].msg.c \in TemplateIds
      /\ ops[i].classTemplateId = ops[i].msg.c
      /\ \A a \in absences :
           a.id = ops[i].absenceId =>
             (a.class_template_id = ops[i].msg.c /\ a.session_date = ops[i].msg.d)

\* the row operation i has selected is locked by another transaction
WaitsForSlot(i) == \E l \in slotLock : l.slot = ops[i].slot_id /\ l.op # i

\* i and j are reservations of two members for one occurrence, running at the
\* same time, each begun with credit and with two slots of the occurrence
\* open, and no other reservation is made for that occurrence
TwoClaimants(i, j) ==
  /\ i # j /\ ops[i].kind = "makeup" /\ ops[j].kind = "makeup"
  /\ ops[i].user # ops[j].user
  /\ ops[i].ct = ops[j].ct /\ ops[i].ymd = ops[j].ymd
  /\ i \notin ops[j].after /\ j \notin ops[i].after
  /\ ops[i].creditAtStart >= 1 /\ ops[j].creditAtStart >= 1
  /\ Cardinality(ops[i].openAtStart) >= 2 /\ Cardinality(ops[j].openAtStart) >= 2
  /\ \A k \in OpIds : (ops[k].kind = "makeup" /\ ops[k].ct = ops[i].ct
                       /\ ops[k].ymd = ops[i].ymd) => k \in {i, j}

\* C37: with two eligible open Slots of one (classTemplateId, sessionDate) and
\* two different members with credit calling reserveMakeupSlot concurrently,
\* neither call waits for the other's slot lock, both succeed, and they take
\* two distinct slots.
C37_TwoClaimantsTwoSlots ==
  \A i, j \in OpIds :
    TwoClaimants(i, j) =>
      /\ ops[i].pc \in {"mk_take", "mk_debit"} => ~WaitsForSlot(i)
      /\ ops[i].pc = "done" => ops[i].result = "ok"
      /\ (ops[i].pc = "done" /\ ops[j].pc = "done") =>
           /\ ops[i].slot_id # ops[j].slot_id
           /\ \E s \in slots : s.id = ops[i].slot_id /\ s.taken_by_user_id = ops[i].user
           /\ \E s \in slots : s.id = ops[j].slot_id /\ s.taken_by_user_id = ops[j].user

\* both claimants have selected a slot before either committed, and both have
\* finished
C37_Witness ==
  \E i, j \in OpIds :
    /\ TwoClaimants(i, j)
    /\ ops[i].pc = "done" /\ ops[j].pc = "done"
    /\ ops[i].result = "ok" /\ ops[j].result = "ok"
    /\ ops[i].slot_id = 2 /\ ops[j].slot_id = 1
    /\ i < j

\* C38: under weak fairness every reportAbsence and reserveMakeupSlot
\* transaction that was started ends, committed (result ok) or rolled back
\* (any other result), holding no row lock and no uncommitted row afterwards;
\* no set of transactions waits on the credit-row lock and the slot-row locks
\* for ever, also when a member reports an absence while claiming a slot.
HoldsNothing(i) ==
  /\ \A u \in Members : creditLock[u] # i
  /\ \A l \in slotLock : l.op # i
  /\ ops[i].wAbs = {} /\ ops[i].wSlots = {} /\ ops[i].wTaken = {} /\ ops[i].wCredit = {}
C38_State ==
  \A i \in Finished :
    /\ ops[i].result \in {"ok", "past_date", "no_enrollment_for_weekday", "already_absent",
                          "exception", "no_credit", "slot_unavailable"}
    /\ HoldsNothing(i)
C38_TransactionsTerminate ==
  /\ []C38_State
  /\ \A i \in 1..MaxOps : [](i \in OpIds => <>(i \in Finished))
\* a member's absence report and the same member's slot claim were open at the
\* same time, the claim started first; the report is committed, the claim
\* rolled back
C38_Witness ==
  \E i, j \in Finished :
    /\ j < i /\ Overlap(i, j)
    /\ ops[i].kind = "absence" /\ ops[j].kind = "makeup"
    /\ ops[i].user = ops[j].user
    /\ ops[i].result = "ok" /\ ops[j].result = "slot_unavailable"

\* C39: the instructor's panel and the creation of slots are run only for a
\* sender resolved as instructor: a reply whose id starts with instr_ (the row
\* instr_addslot_<date>_<class> among them) sent by a member, active or not,
\* or by an unknown number is never answered by a panel action, never becomes
\* an addManualSlot operation, and handling it inserts no slot.
NotAnInstructor(m) == m.from \in Members \cup InactiveMembers \cup UnknownSenders
PanelRow(m) == m.shape # "text" /\ m.tag \in InstrIds
PanelBranches == InstrIds \cup {"addslot", "addslot_malformed"}
C39_State ==
  \A i \in OpIds :
    PanelRow(ops[i].msg) /\ NotAnInstructor(ops[i].msg) =>
      /\ ops[i].kind \in {"reply", "skipped"}
      /\ ops[i].result \notin PanelBranches
C39_Step ==
  \A k \in (Len(ops) + 1)..Len(ops') :
    PanelRow(ops'[k].msg) /\ NotAnInstructor(ops'[k].msg) =>
      slots' = slots /\ slotSeq' = slotSeq
C39_PanelOnlyForInstructors == []C39_State /\ [][C39_Step]_vars
\* a member and then an unknown number chose instr_addslot_<tomorrow>_c1, an
\* id an instructor's choice would open a slot with; no slot was added
C39_Witness ==
  /\ Len(ops) = 2
  /\ \A i \in OpIds : /\ ops[i].msg.tag = "instr_addslot" /\ ops[i].msg.n = 4
                      /\ ops[i].msg.c = FocusClass /\ ops[i].pc = "done"
  /\ ops[1].msg.from \in Members /\ ops[2].msg.from \in UnknownSenders
  /\ AddSlotOutcome("i1", ops[1].msg.d, ops[1].msg.c) = "ok"
  /\ Cardinality(slots) = 2

\* C40: reserveOpenSlot never leaves one user holding two taken slots of the
\* same (class_template_id, session_date), also when two requests of the user
\* run at the same time; a request repeated after a reservation of the user
\* for that occurrence returns via already_taken_by_user.
TakenSlotsOf(u, c, d) ==
  {s \in slots : /\ s.status = "taken" /\ s.taken_by_user_id = u
                 /\ s.class_template_id = c /\ s.session_date = d}
Repeats(j, i) ==
  /\ ops[i].kind = "reserve" /\ ops[j].kind = "reserve"
  /\ i \in ops[j].after /\ ops[i].result = "reserved"
  /\ ops[j].user = ops[i].user /\ ops[j].ct = ops[i].ct /\ ops[j].ymd = ops[i].ymd
C40_OneSlotPerUserAndOccurrence ==
  /\ \A u \in Members, c \in ClassIds, d \in Dates : Cardinality(TakenSlotsOf(u, c, d)) <= 1
  /\ \A i, j \in Finished : Repeats(j, i) => ops[j].result = "already_taken_by_user"

====
